---------------------------- MODULE Spec2Model ----------------------------
(***************************************************************************)
(* State-machine model of the GameServer class of src/src/game/gameServer.ts *)
(* (the quadrant version with split/merge, lines 60-761): the players and   *)
(* food maps, the quadrant index, the socket handlers join / move / split / *)
(* disconnect and the self-rescheduling game loop (collision pass followed  *)
(* by the merge check).                                                     *)
(*                                                                         *)
(* Numbers.  Positions and radii are integers (world units).  Masses are    *)
(* integers counted in 1/MassUnit of a mass point, so that halving a mass   *)
(* (split) is exact whenever the model takes the step.  Distances are       *)
(* compared through their squares, which is exact.  Math.random() is a      *)
(* choice from a small set of values; JS Map and Set iteration order        *)
(* (insertion order) is kept by modelling them as sequences.                *)
(***************************************************************************)
EXTENDS Integers, Sequences, FiniteSets, TLC

\* ------------------------------------------------------------------ bounds
\* Connections offered to the server.
Sockets == {"s1", "s2"}
\* Last clock reading (ms) the model explores.
MaxClock == 17
\* Amounts by which the clock advances between two callbacks.
ClockSteps == {17}
\* Last clock reading (ms) and clock steps of the runs that follow the game
\* loop over several broadcast periods.
MaxLoopClock == 100
LoopSteps == {17, 50}
\* Largest number of Math.random() position draws one collision pass may use.
MaxDraws == 2
\* Number of join, move and split commands the model explores.
MaxCommands == 3

\* ------------------------------------------------------- program constants
WORLD_WIDTH == 5000
WORLD_HEIGHT == 5000
FOOD_COUNT == 1
BASE_RADIUS == 20
BASE_MASS == 100
PLAYER_SPEED == 15
MIN_SPLIT_MASS == 50
QUADRANT_SIZE == 500
MAX_PLAYERS == 1
UPDATE_RATE == 60
BROADCAST_RATE == 20
\* Mass is stored in units of 1/MassUnit mass point.
MassUnit == 4

\* ---------------------------------------------------------------- helpers
Max(a, b) == IF a >= b THEN a ELSE b
Min(a, b) == IF a <= b THEN a ELSE b
Abs(a) == IF a >= 0 THEN a ELSE -a

\* Math.sqrt on the integers: the largest r with r*r <= n.
RECURSIVE ISqrtBetween(_, _, _)
ISqrtBetween(n, lo, hi) ==
    IF hi - lo <= 1 THEN lo
    ELSE LET mid == (lo + hi) \div 2
         IN  IF mid * mid <= n THEN ISqrtBetween(n, mid, hi)
                               ELSE ISqrtBetween(n, lo, mid)
ISqrt(n) == ISqrtBetween(n, 0, 46341)

\* this.massToRadius(mass) = Math.sqrt(mass) * 1.5, mass given in mass units:
\* (1.5 * sqrt(m / MassUnit))^2 = 9 * m / (4 * MassUnit).
massToRadius(mass) == ISqrt((9 * mass) \div (4 * MassUnit))

\* Math.round of a mass amount given in mass units (score increments).
Round(mass) == (2 * mass + MassUnit) \div (2 * MassUnit)

\* The numbers of JavaScript that are not finite, as far as a move command
\* can bring them in: Infinity as a coordinate of the target, NaN as what
\* the arithmetic makes of it.  Both stand outside every coordinate range
\* and are never operands of integer arithmetic.
Infinity == 1000000
NaN == -1000000
IsFinite(v) == v \notin {Infinity, NaN}
\* a + b and a - b where b is finite or NaN.
Plus(a, b) == IF a = NaN \/ b = NaN THEN NaN
              ELSE IF a = Infinity THEN Infinity ELSE a + b
Minus(a, b) == IF a = NaN \/ b = NaN THEN NaN
               ELSE IF a = Infinity THEN Infinity ELSE a - b

\* Squared Euclidean distance; Math.sqrt(dx*dx + dy*dy) < r is compared as
\* dx*dx + dy*dy < r*r.
Dist2(x1, y1, x2, y2) == (x2 - x1) * (x2 - x1) + (y2 - y1) * (y2 - y1)

\* ------------------------------------------------- values of Math.random()
\* Positions Math.random() * WORLD_WIDTH, Math.random() * WORLD_HEIGHT gives
\* to a joining or respawning cell: next to the quadrant border x = 500 on
\* either side, and in the corner of the world closer to the border than a
\* radius.
RandomPoints == {<<495, 250>>, <<10, 4995>>}
\* Values of the three Math.random() calls of one join (x, y, colour).
JoinDraws == {<<495, 250, "#FF6B6B">>, <<10, 4995, "#4ECDC4">>}
\* Positions of spawned food, on either side of the quadrant border x = 500.
FoodPoints == {<<490, 250>>, <<505, 250>>}
\* Radii MIN_FOOD_RADIUS + Math.random() * 3 of spawned food, counted in
\* 1/MassUnit of a world unit: 7.5.
FoodRadii == {(15 * MassUnit) \div 2}
\* Math.random() * Math.PI * 2 in handleSplit, in degrees.
Angles == {90, 180}
Cos(a) == CASE a = 0 -> 1 [] a = 90 -> 0 [] a = 180 -> -1 [] a = 270 -> 0
Sin(a) == CASE a = 0 -> 0 [] a = 90 -> 1 [] a = 180 -> 0 [] a = 270 -> -1
\* Name each client sends with join; the empty string is a missing name.
NameInput(s) == IF s = "s1" THEN "Bob" ELSE ""
\* Targets sent with move by the clients of the state machine.
Targets == {<<510, 250>>, <<12, 4995>>}

\* Targets of a move command that hold a coordinate that is not finite.
MalformedTargets == {<<Infinity, 250>>, <<250, Infinity>>, <<NaN, 250>>}

\* ------------------------------------------------------------ identifiers
\* socket.id of a connection, as a cell id.
SocketId(s) == <<s>>
\* `${playerId}_part_${Date.now()}`
PartId(playerId, t) == playerId \o <<t>>
\* An absent parentId / quadrant (undefined).
Undefined == <<>>
\* ------------------------------------------------------- Map / Set (JS)
\* A Map<string, T> is the sequence of its values in insertion order (each
\* value carries its key in the field id); a Set<string> is the sequence of
\* its elements in insertion order.
Range(seq) == {seq[i] : i \in 1 .. Len(seq)}
Has(map, id) == \E i \in 1 .. Len(map) : map[i].id = id
IdxOf(map, id) == CHOOSE i \in 1 .. Len(map) : map[i].id = id
Get(map, id) == map[IdxOf(map, id)]
MapSet(map, rec) ==
    IF Has(map, rec.id) THEN [map EXCEPT ![IdxOf(map, rec.id)] = rec]
                        ELSE Append(map, rec)
MapDelete(map, id) == SelectSeq(map, LAMBDA r : r.id # id)
SetAdd(set, e) == IF e \in Range(set) THEN set ELSE Append(set, e)
SetDelete(set, e) == SelectSeq(set, LAMBDA v : v # e)

\* ------------------------------------------------------------ quadrants
Cols == (WORLD_WIDTH + QUADRANT_SIZE - 1) \div QUADRANT_SIZE
Rows == (WORLD_HEIGHT + QUADRANT_SIZE - 1) \div QUADRANT_SIZE
\* initializeQuadrants(): the quadrants in insertion order, x outer, y inner.
initializeQuadrants ==
    [i \in 1 .. (Cols * Rows) |->
        [id |-> <<(i - 1) \div Rows, (i - 1) % Rows>>,
         players |-> <<>>, food |-> <<>>]]
\* Math.floor(NaN / QUADRANT_SIZE) is NaN: the key is then "NaN_<row>".
getQuadrantId(x, y) ==
    <<IF x = NaN THEN NaN ELSE x \div QUADRANT_SIZE,
      IF y = NaN THEN NaN ELSE y \div QUADRANT_SIZE>>

VARIABLES
    players,            \* this.players : Map<string, Player>
    food,               \* this.food : Map<string, Food>
    quadrants,          \* this.quadrants : Map<string, Quadrant>
    sockets,            \* state of each connection: "idle", "open", "closed"
    now,                \* Date.now()
    lastUpdateTime,     \* closure variable of startGameLoop
    lastBroadcastTime,  \* closure variable of startGameLoop
    commands,           \* number of commands handled so far
    emitted,            \* events emitted by the callback that ran last
    handlers,           \* events with a registered handler, per emitter
    arena,              \* players, food and frameCount of the class with bots
    pending,            \* events clients emitted that the server has yet to dispatch
    immediates          \* gameLoop callbacks in the setImmediate queue

vars == <<players, food, quadrants, sockets, now, lastUpdateTime,
          lastBroadcastTime, commands, emitted,
          handlers, arena, pending, immediates>>

\* ----------------------------------------------------------------- events
\* socket.emit(event, payload): to the socket of the handler.
SocketEmit(socketId, event, payload) ==
    [event |-> event, via |-> "socket", to |-> socketId, payload |-> payload]
\* this.io.to(room).emit(event, payload): to the sockets in the room.
RoomEmit(room, event, payload) ==
    [event |-> event, via |-> "room", to |-> room, payload |-> payload]
\* this.io.volatile.emit(event, payload): to every connected socket.
BroadcastEmit(event, payload) ==
    [event |-> event, via |-> "broadcast", to |-> <<>>, payload |-> payload]
\* The connections an emitted event is delivered to.  Every socket is in
\* the room named by its own id and in no other room (nothing calls
\* socket.join).
Recipients(e, socks) ==
    IF e.via = "socket" THEN {s \in Sockets : <<s>> = e.to}
    ELSE IF e.via = "room"
    THEN {s \in Sockets : socks[s] = "open" /\ <<s>> = e.to}
    ELSE {s \in Sockets : socks[s] = "open"}

\* The three maps, passed through the operators that model methods.
World(p, f, q) == [players |-> p, food |-> f, quadrants |-> q]

\* updatePlayerQuadrant(playerId, oldX, oldY); hasOld is FALSE when the old
\* coordinates are not passed.
updatePlayerQuadrant(w, playerId, hasOld, oldX, oldY) ==
    IF ~Has(w.players, playerId) THEN w
    ELSE
      LET player == Get(w.players, playerId)
          newQuadrantId == getQuadrantId(player.x, player.y)
          oldQuadrantId == getQuadrantId(oldX, oldY)
          q1 == IF hasOld /\ oldQuadrantId # newQuadrantId
                   /\ Has(w.quadrants, oldQuadrantId)
                THEN [w.quadrants EXCEPT
                        ![IdxOf(w.quadrants, oldQuadrantId)].players =
                            SetDelete(@, playerId)]
                ELSE w.quadrants
          q2 == IF Has(q1, newQuadrantId)
                THEN [q1 EXCEPT ![IdxOf(q1, newQuadrantId)].players =
                                    SetAdd(@, playerId)]
                ELSE q1
      IN  World(MapSet(w.players, [player EXCEPT !.quadrant = newQuadrantId]),
                w.food, q2)

\* updateFoodQuadrant(foodId)
updateFoodQuadrant(w, foodId) ==
    IF ~Has(w.food, foodId) THEN w
    ELSE
      LET item == Get(w.food, foodId)
          quadrantId == getQuadrantId(item.x, item.y)
          q == IF Has(w.quadrants, quadrantId)
               THEN [w.quadrants EXCEPT
                       ![IdxOf(w.quadrants, quadrantId)].food = SetAdd(@, foodId)]
               ELSE w.quadrants
      IN  World(w.players, MapSet(w.food, [item EXCEPT !.quadrant = quadrantId]), q)

\* Identifiers held by the food map or by some quadrant's food set.
FoodIdsInUse(w) ==
    {w.food[i].id : i \in 1 .. Len(w.food)}
      \cup UNION {Range(w.quadrants[i].food) : i \in 1 .. Len(w.quadrants)}
\* `food_${Date.now()}_${Math.random()}`: an identifier nothing holds; the
\* model takes the least such number.
FreshFoodId(w) ==
    LET unused == (1 .. (Cardinality(FoodIdsInUse(w)) + 1)) \ FoodIdsInUse(w)
    IN  CHOOSE id \in unused : \A other \in unused : id <= other

\* spawnFood(), with the values Math.random() returned for x, y and radius.
spawnFood(w, pos, radius) ==
    LET item == [id |-> FreshFoodId(w), x |-> pos[1], y |-> pos[2],
                 radius |-> radius, quadrant |-> Undefined]
    IN  updateFoodQuadrant(World(w.players, MapSet(w.food, item), w.quadrants),
                           item.id)

\* The worlds spawnFood() can produce.
spawnFoodAny(w) == {spawnFood(w, pos, r) : pos \in FoodPoints, r \in FoodRadii}

\* initializeFood(): FOOD_COUNT calls of spawnFood().
RECURSIVE initializeFood(_, _)
initializeFood(w, n) ==
    IF n = 0 THEN {w}
    ELSE UNION {spawnFoodAny(w1) : w1 \in initializeFood(w, n - 1)}

Init ==
    /\ \E w \in initializeFood(World(<<>>, <<>>, initializeQuadrants), FOOD_COUNT) :
          /\ players = w.players
          /\ food = w.food
          /\ quadrants = w.quadrants
    /\ sockets = [s \in Sockets |-> "idle"]
    /\ now = 0
    /\ lastUpdateTime = 0
    /\ lastBroadcastTime = 0
    /\ commands = 0
    /\ emitted = <<>>
    /\ handlers = [e \in Sockets \cup {"io"} |->
                      IF e = "io" THEN {"connection"} ELSE {}]
    /\ arena = [players |-> <<>>, food |-> <<>>, frameCount |-> 0, lastTime |-> 0]
    /\ pending = {}
    /\ immediates = 1

\* The clock advances between two callbacks.
AdvanceClock(d) ==
    /\ now + d <= MaxClock
    /\ now' = now + d
    /\ emitted' = <<>>
    /\ UNCHANGED <<players, food, quadrants, sockets, lastUpdateTime,
                   lastBroadcastTime, commands, handlers, arena, pending, immediates>>

\* targetBroadcastTime = 1000 / BROADCAST_RATE ms go by between two
\* callbacks, once: the next gameLoop finds the tick and the broadcast due.
AwaitBroadcast ==
    /\ now = 0
    /\ now' = 1000 \div BROADCAST_RATE
    /\ emitted' = <<>>
    /\ UNCHANGED <<players, food, quadrants, sockets, lastUpdateTime,
                   lastBroadcastTime, commands, handlers, arena, pending, immediates>>

\* The events for which the connection handler registers a handler on an
\* accepted socket.
SocketEvents == {"join", "move", "split", "disconnect"}

\* io.on("connection"): a full server answers serverFull and closes the
\* socket before any handler is registered.
Connect(s) ==
    /\ "connection" \in handlers["io"]
    /\ sockets[s] = "idle"
    /\ sockets' = [sockets EXCEPT ![s] =
                      IF Len(players) >= MAX_PLAYERS THEN "closed" ELSE "open"]
    /\ emitted' = IF Len(players) >= MAX_PLAYERS
                  THEN <<SocketEmit(SocketId(s), "serverFull", <<>>)>>
                  ELSE <<>>
    /\ handlers' = IF Len(players) >= MAX_PLAYERS THEN handlers
                   ELSE [handlers EXCEPT ![s] = SocketEvents]
    /\ UNCHANGED <<players, food, quadrants, now, lastUpdateTime,
                   lastBroadcastTime, commands, arena, pending, immediates>>

\* What a socket handler leaves: the maps and the events it emitted.
Handled(w, events) == [w |-> w, events |-> events]

\* The join handler returning at once when the socket has a cell already.
joinKeepsCell(w, socketId, name, pos, color) ==
    IF Has(w.players, socketId) THEN Handled(w, <<>>)
    ELSE
      LET p0 == IF Has(w.players, socketId) THEN MapDelete(w.players, socketId)
                ELSE w.players
          player == [id |-> socketId, x |-> pos[1], y |-> pos[2],
                     radius |-> BASE_RADIUS, mass |-> BASE_MASS * MassUnit,
                     color |-> color,
                     name |-> IF name = "" THEN "Anonymous" ELSE name,
                     isBot |-> FALSE, parentId |-> Undefined,
                     splitParts |-> <<>>, score |-> 0, quadrant |-> Undefined]
          w1 == updatePlayerQuadrant(World(MapSet(p0, player), w.food, w.quadrants),
                                     socketId, FALSE, 0, 0)
      IN  Handled(w1, <<SocketEmit(socketId, "init",
                                   [player |-> Get(w1.players, socketId),
                                    worldWidth |-> WORLD_WIDTH,
                                    worldHeight |-> WORLD_HEIGHT])>>)

\* The join handler, with the values Math.random() and getRandomColor()
\* returned.  The init event carries the player object as it is after
\* updatePlayerQuadrant.
join(w, socketId, name, pos, color) ==
    LET p0 == IF Has(w.players, socketId) THEN MapDelete(w.players, socketId)
              ELSE w.players
        player == [id |-> socketId, x |-> pos[1], y |-> pos[2],
                   radius |-> BASE_RADIUS, mass |-> BASE_MASS * MassUnit,
                   color |-> color,
                   name |-> IF name = "" THEN "Anonymous" ELSE name,
                   isBot |-> FALSE, parentId |-> Undefined,
                   splitParts |-> <<>>, score |-> 0, quadrant |-> Undefined]
        w1 == updatePlayerQuadrant(World(MapSet(p0, player), w.food, w.quadrants),
                                   socketId, FALSE, 0, 0)
    IN  Handled(w1, <<SocketEmit(socketId, "init",
                                 [player |-> Get(w1.players, socketId),
                                  worldWidth |-> WORLD_WIDTH,
                                  worldHeight |-> WORLD_HEIGHT])>>)

\* socket.on("join")
Join(s, name, pos, color) ==
    /\ sockets[s] = "open"
    /\ "join" \in handlers[s]
    /\ commands < MaxCommands
    /\ commands' = commands + 1
    /\ LET h == join(World(players, food, quadrants), SocketId(s), name, pos, color)
       IN  /\ players' = h.w.players
           /\ quadrants' = h.w.quadrants
           /\ emitted' = h.events
    /\ UNCHANGED <<food, sockets, now, lastUpdateTime, lastBroadcastTime,
                   handlers, arena, pending, immediates>>

\* Division rounded to the nearest integer (b > 0).
RoundDiv(a, b) == (2 * a + b) \div (2 * b)

\* movePlayerTowardsTarget(player, targetX, targetY); the player object is
\* the value the map holds under playerId.
movePlayerTowardsTarget(w, playerId, targetX, targetY) ==
    LET player == Get(w.players, playerId)
        oldX == player.x
        oldY == player.y
        dx == Minus(targetX, player.x)
        dy == Minus(targetY, player.y)
        d2 == dx * dx + dy * dy
        distance == ISqrt(d2)
        moveX == RoundDiv(dx * PLAYER_SPEED, distance)
        moveY == RoundDiv(dy * PLAYER_SPEED, distance)
        newX == Max(player.radius, Min(WORLD_WIDTH - player.radius, oldX + moveX))
        newY == Max(player.radius, Min(WORLD_HEIGHT - player.radius, oldY + moveY))
        moved == World(MapSet(w.players, [player EXCEPT !.x = newX, !.y = newY]),
                       w.food, w.quadrants)
        \* distance is Infinity: dx / distance is NaN for an infinite dx and 0
        \* for a finite one; Math.min and Math.max return NaN for a NaN
        \* argument, and Math.abs(oldX - NaN) > 1 is false.
        farX == IF dx = Infinity THEN NaN
                ELSE Max(player.radius, Min(WORLD_WIDTH - player.radius, oldX))
        farY == IF dy = Infinity THEN NaN
                ELSE Max(player.radius, Min(WORLD_HEIGHT - player.radius, oldY))
        movedFar == World(MapSet(w.players, [player EXCEPT !.x = farX, !.y = farY]),
                          w.food, w.quadrants)
    IN  IF dx = NaN \/ dy = NaN THEN w
        ELSE IF dx = Infinity \/ dy = Infinity
        THEN IF \/ (farX # NaN /\ Abs(oldX - farX) > 1)
                \/ (farY # NaN /\ Abs(oldY - farY) > 1)
             THEN updatePlayerQuadrant(movedFar, playerId, TRUE, oldX, oldY)
             ELSE movedFar
        ELSE IF d2 > 5 * 5
        THEN IF Abs(oldX - newX) > 1 \/ Abs(oldY - newY) > 1
             THEN updatePlayerQuadrant(moved, playerId, TRUE, oldX, oldY)
             ELSE moved
        ELSE w

\* getAllPlayerParts(playerId): the ids of the returned objects, in order.
getAllPlayerParts(w, playerId) ==
    IF ~Has(w.players, playerId) THEN <<>>
    ELSE LET mainPlayer == Get(w.players, playerId)
             listed == SelectSeq(mainPlayer.splitParts,
                                 LAMBDA partId : Has(w.players, partId))
             children == SelectSeq(w.players,
                                   LAMBDA p : p.parentId = playerId)
         IN  <<playerId>> \o listed
               \o [i \in 1 .. Len(children) |-> children[i].id]

\* The forEach loop of moveAllPlayerParts over allParts, from index i on.
RECURSIVE movePartsFrom(_, _, _, _, _, _)
movePartsFrom(w, allParts, i, playerId, targetX, targetY) ==
    IF i > Len(allParts) THEN w
    ELSE LET partId == allParts[i]
             part == Get(w.players, partId)
             mainPlayer == Get(w.players, playerId)
             relX == Minus(part.x, mainPlayer.x)
             relY == Minus(part.y, mainPlayer.y)
             w1 == IF partId # playerId
                   THEN movePlayerTowardsTarget(w, partId, Plus(targetX, relX),
                                                Plus(targetY, relY))
                   ELSE w
         IN  movePartsFrom(w1, allParts, i + 1, playerId, targetX, targetY)

\* moveAllPlayerParts(playerId, targetX, targetY)
moveAllPlayerParts(w, playerId, targetX, targetY) ==
    IF ~Has(w.players, playerId) THEN w
    ELSE LET allParts == getAllPlayerParts(w, playerId)
             w1 == movePlayerTowardsTarget(w, playerId, targetX, targetY)
         IN  movePartsFrom(w1, allParts, 1, playerId, targetX, targetY)

\* The move handler: nothing is emitted.
move(w, socketId, targetX, targetY) ==
    IF ~Has(w.players, socketId) \/ Get(w.players, socketId).isBot
    THEN Handled(w, <<>>)
    ELSE Handled(moveAllPlayerParts(w, socketId, targetX, targetY), <<>>)

\* socket.on("move")
Move(s, target) ==
    /\ sockets[s] = "open"
    /\ "move" \in handlers[s]
    /\ commands < MaxCommands
    /\ commands' = commands + 1
    /\ LET h == move(World(players, food, quadrants), SocketId(s),
                     target[1], target[2])
       IN  /\ players' = h.w.players
           /\ quadrants' = h.w.quadrants
           /\ emitted' = h.events
    /\ UNCHANGED <<food, sockets, now, lastUpdateTime, lastBroadcastTime,
                   handlers, arena, pending, immediates>>

\* handleSplit without the test of MIN_SPLIT_MASS.
handleSplitAnyMass(w, playerId, t, angle) ==
    IF ~Has(w.players, playerId) THEN w
    ELSE
      LET player == Get(w.players, playerId)
          newMass == player.mass \div 2
          newRadius == massToRadius(newMass)
          newPartId == PartId(playerId, t)
          splitDistance == newRadius * 2
          newPart == [id |-> newPartId,
                      x |-> player.x + Cos(angle) * splitDistance,
                      y |-> player.y + Sin(angle) * splitDistance,
                      radius |-> newRadius, mass |-> newMass,
                      color |-> player.color, name |-> player.name,
                      isBot |-> FALSE, parentId |-> playerId,
                      splitParts |-> <<>>, score |-> 0, quadrant |-> Undefined]
          p1 == MapSet(w.players,
                       [player EXCEPT !.mass = newMass, !.radius = newRadius,
                                      !.splitParts = Append(@, newPartId)])
      IN  updatePlayerQuadrant(World(MapSet(p1, newPart), w.food, w.quadrants),
                               newPartId, FALSE, 0, 0)

\* handleSplit(playerId), with the values of Date.now() and of the angle.
handleSplit(w, playerId, t, angle) ==
    IF ~Has(w.players, playerId) THEN w
    ELSE IF Get(w.players, playerId).mass < MIN_SPLIT_MASS * MassUnit THEN w
    ELSE
      LET player == Get(w.players, playerId)
          newMass == player.mass \div 2
          newRadius == massToRadius(newMass)
          newPartId == PartId(playerId, t)
          splitDistance == newRadius * 2
          newPart == [id |-> newPartId,
                      x |-> player.x + Cos(angle) * splitDistance,
                      y |-> player.y + Sin(angle) * splitDistance,
                      radius |-> newRadius, mass |-> newMass,
                      color |-> player.color, name |-> player.name,
                      isBot |-> FALSE, parentId |-> playerId,
                      splitParts |-> <<>>, score |-> 0, quadrant |-> Undefined]
          p1 == MapSet(w.players,
                       [player EXCEPT !.mass = newMass, !.radius = newRadius,
                                      !.splitParts = Append(@, newPartId)])
      IN  updatePlayerQuadrant(World(MapSet(p1, newPart), w.food, w.quadrants),
                               newPartId, FALSE, 0, 0)

\* The split handler: nothing is emitted.
split(w, socketId, t, angle) == Handled(handleSplit(w, socketId, t, angle), <<>>)

\* socket.on("split").  The model takes the step only when the halved mass
\* is a whole number of mass units.
Split(s, angle) ==
    /\ sockets[s] = "open"
    /\ "split" \in handlers[s]
    /\ commands < MaxCommands
    /\ commands' = commands + 1
    /\ Has(players, SocketId(s)) => Get(players, SocketId(s)).mass % 2 = 0
    /\ LET h == split(World(players, food, quadrants), SocketId(s), now, angle)
       IN  /\ players' = h.w.players
           /\ quadrants' = h.w.quadrants
           /\ emitted' = h.events
    /\ UNCHANGED <<food, sockets, now, lastUpdateTime, lastBroadcastTime,
                   handlers, arena, pending, immediates>>

\* The forEach loop of the disconnect handler over player.splitParts.
RECURSIVE deleteParts(_, _, _)
deleteParts(map, splitParts, i) ==
    IF i > Len(splitParts) THEN map
    ELSE deleteParts(MapDelete(map, splitParts[i]), splitParts, i + 1)

\* socket.on("disconnect")
disconnect(w, socketId) ==
    IF ~Has(w.players, socketId) THEN w
    ELSE IF Get(w.players, socketId).isBot THEN w
    ELSE
      LET player == Get(w.players, socketId)
          p1 == MapDelete(deleteParts(w.players, player.splitParts, 1), socketId)
          q1 == IF player.quadrant # Undefined /\ Has(w.quadrants, player.quadrant)
                THEN [w.quadrants EXCEPT
                        ![IdxOf(w.quadrants, player.quadrant)].players =
                            SetDelete(@, socketId)]
                ELSE w.quadrants
      IN  World(p1, w.food, q1)

Disconnect(s) ==
    /\ sockets[s] = "open"
    /\ "disconnect" \in handlers[s]
    /\ sockets' = [sockets EXCEPT ![s] = "closed"]
    /\ LET w == disconnect(World(players, food, quadrants), SocketId(s))
       IN  /\ players' = w.players
           /\ quadrants' = w.quadrants
    /\ emitted' = <<>>
    /\ UNCHANGED <<food, now, lastUpdateTime, lastBroadcastTime, commands,
                   handlers, arena, pending, immediates>>

\* ----------------------------------------------------- collision pass
\* State of one checkCollisions() call: the maps, processedPairs and the
\* number of Math.random() position draws made so far.  A method that calls
\* Math.random() is modelled by the set of states it can produce.
Pass(w, pairs, draws, events) ==
    [w |-> w, pairs |-> pairs, draws |-> draws, events |-> events]

\* handlePlayerEaten with the whole mass of the eaten cell as the gain.
handlePlayerEatenFullGain(w, eatenId, eaterId, pos) ==
    LET eaten == Get(w.players, eatenId)
        eater == Get(w.players, eaterId)
        massGain == eaten.mass
        eater1 == [eater EXCEPT !.mass = @ + massGain,
                                !.radius = massToRadius(eater.mass + massGain),
                                !.score = @ + Round(massGain)]
        eaten1 == [eaten EXCEPT !.x = pos[1], !.y = pos[2],
                                !.mass = BASE_MASS * MassUnit,
                                !.radius = BASE_RADIUS, !.score = 0]
        p1 == MapSet(MapSet(w.players, eater1), eaten1)
    IN  updatePlayerQuadrant(World(p1, w.food, w.quadrants), eatenId, FALSE, 0, 0)

\* handlePlayerEaten that leaves the eaten cell the mass the eater did not
\* gain instead of the base mass.
handlePlayerEatenKeepsRest(w, eatenId, eaterId, pos) ==
    LET eaten == Get(w.players, eatenId)
        eater == Get(w.players, eaterId)
        massGain == (eaten.mass * 4) \div 5
        eater1 == [eater EXCEPT !.mass = @ + massGain,
                                !.radius = massToRadius(eater.mass + massGain),
                                !.score = @ + Round(massGain)]
        eaten1 == [eaten EXCEPT !.x = pos[1], !.y = pos[2],
                                !.mass = eaten.mass - massGain,
                                !.radius = BASE_RADIUS, !.score = 0]
        p1 == MapSet(MapSet(w.players, eater1), eaten1)
    IN  updatePlayerQuadrant(World(p1, w.food, w.quadrants), eatenId, FALSE, 0, 0)

\* handlePlayerEaten(eaten, eater), with the respawn position drawn.
handlePlayerEaten(w, eatenId, eaterId, pos) ==
    LET eaten == Get(w.players, eatenId)
        eater == Get(w.players, eaterId)
        massGain == (eaten.mass * 4) \div 5
        eater1 == [eater EXCEPT !.mass = @ + massGain,
                                !.radius = massToRadius(eater.mass + massGain),
                                !.score = @ + Round(massGain)]
        eaten1 == [eaten EXCEPT !.x = pos[1], !.y = pos[2],
                                !.mass = BASE_MASS * MassUnit,
                                !.radius = BASE_RADIUS, !.score = 0]
        p1 == MapSet(MapSet(w.players, eater1), eaten1)
    IN  updatePlayerQuadrant(World(p1, w.food, w.quadrants), eatenId, FALSE, 0, 0)

\* The playerDeath event emitted after the reset of the eaten cell.
playerDeathAfterReset(w, eatenId, eaterId) ==
    LET eaten == Get(w.players, eatenId)
        eater == Get(w.players, eaterId)
    IN  IF eaten.isBot THEN <<>>
        ELSE <<RoomEmit(eaten.id, "playerDeath",
                        [playerId |-> eaten.id, eatenBy |-> eater.name,
                         finalMass |-> BASE_MASS * MassUnit, finalScore |-> 0])>>

\* The playerDeath event of handlePlayerEaten: it is emitted after the
\* eater has gained and before the eaten cell is reset, to the room named
\* by the eaten cell's id; none for a bot.
playerDeath(w, eatenId, eaterId) ==
    LET eaten == Get(w.players, eatenId)
        eater == Get(w.players, eaterId)
    IN  IF eaten.isBot THEN <<>>
        ELSE <<RoomEmit(eaten.id, "playerDeath",
                        [playerId |-> eaten.id, eatenBy |-> eater.name,
                         finalMass |-> eaten.mass, finalScore |-> eaten.score])>>

\* The states handlePlayerEaten can produce.
handlePlayerEatenAny(c, eatenId, eaterId) ==
    IF c.draws >= MaxDraws THEN {}
    ELSE {Pass(handlePlayerEaten(c.w, eatenId, eaterId, pos), c.pairs,
               c.draws + 1, c.events \o playerDeath(c.w, eatenId, eaterId)) :
            pos \in RandomPoints}

\* const samePlayer = ... of checkPlayerCollision
samePlayerNoSiblings(player, otherPlayer) ==
    \/ player.parentId = otherPlayer.id
    \/ otherPlayer.parentId = player.id
    \/ player.id = otherPlayer.parentId

samePlayer(player, otherPlayer) ==
    \/ /\ player.parentId # Undefined
       /\ otherPlayer.parentId # Undefined
       /\ player.parentId = otherPlayer.parentId
    \/ player.parentId = otherPlayer.id
    \/ otherPlayer.parentId = player.id
    \/ player.id = otherPlayer.parentId

\* The greatest power of two that is at most n (n >= 1).
RECURSIVE Pow2Below(_, _)
Pow2Below(n, p) == IF 2 * p > n THEN p ELSE Pow2Below(n, 2 * p)

\* mass > otherMass * 1.15, as IEEE doubles evaluate it.  The literal 1.15
\* is the double 1.15 - d with d = 0.8 * 2^-53, so the exact product is
\* 1.15 * otherMass - otherMass * d.  Masses here are multiples of
\* 1/MassUnit, MassUnit a power of two, hence exact doubles; when
\* mass # 1.15 * otherMass they differ by at least 1/(20 * MassUnit) and
\* rounding cannot change the comparison.  When mass = 1.15 * otherMass the
\* product rounds to mass if otherMass * d is at most half the spacing of
\* the doubles just below mass (a tie goes to mass, whose significand is
\* even) and to the double below mass otherwise: with P the greatest power
\* of two <= mass, the comparison is true iff 16 * mass > 23 * P
\* (115 > 100 * 1.15 is true, 23 > 20 * 1.15 is false).
canEat(mass, otherMass) ==
    IF 20 * mass = 23 * otherMass
    THEN 16 * mass > 23 * Pow2Below(mass, 1)
    ELSE 20 * mass > 23 * otherMass

\* checkPlayerCollision(player, otherPlayer)
checkPlayerCollision(c, playerId, otherPlayerId) ==
    LET player == Get(c.w.players, playerId)
        otherPlayer == Get(c.w.players, otherPlayerId)
        reach == player.radius + otherPlayer.radius
    IN  IF samePlayer(player, otherPlayer) THEN {c}
        ELSE IF Dist2(player.x, player.y, otherPlayer.x, otherPlayer.y) < reach * reach
        THEN IF canEat(player.mass, otherPlayer.mass)
             THEN handlePlayerEatenAny(c, otherPlayerId, playerId)
             ELSE IF canEat(otherPlayer.mass, player.mass)
             THEN handlePlayerEatenAny(c, playerId, otherPlayerId)
             ELSE {c}
        ELSE {c}

\* eatFood with the removal from this.food left out.
eatFoodKeepsFood(w, qi, playerId, foodId) ==
    LET foodItem == Get(w.food, foodId)
        player == Get(w.players, playerId)
        massGain == foodItem.radius * 2
        player1 == [player EXCEPT
                      !.mass = @ + massGain,
                      !.radius = massToRadius(player.mass + massGain),
                      !.score = @ + Round(massGain)]
    IN  World(MapSet(w.players, player1), w.food,
              [w.quadrants EXCEPT ![qi].food = SetDelete(@, foodId)])

\* The body of `if (distance < player.radius)` in the food loop, up to the
\* call of spawnFood(): the food leaves the map and the quadrant's set, the
\* player gains foodItem.radius * 2.
eatFood(w, qi, playerId, foodId) ==
    LET foodItem == Get(w.food, foodId)
        player == Get(w.players, playerId)
        massGain == foodItem.radius * 2
        player1 == [player EXCEPT
                      !.mass = @ + massGain,
                      !.radius = massToRadius(player.mass + massGain),
                      !.score = @ + Round(massGain)]
    IN  World(MapSet(w.players, player1),
              MapDelete(w.food, foodId),
              [w.quadrants EXCEPT ![qi].food = SetDelete(@, foodId)])

\* The loop over quadrant.food for one player, from position fi of the
\* (live) set on.
RECURSIVE foodLoop(_, _, _, _)
foodLoop(c, qi, playerId, fi) ==
    LET quadrant == c.w.quadrants[qi]
    IN  IF fi > Len(quadrant.food) THEN {c}
        ELSE
          LET foodId == quadrant.food[fi]
          IN  IF ~Has(c.w.food, foodId) THEN foodLoop(c, qi, playerId, fi + 1)
              ELSE
                LET foodItem == Get(c.w.food, foodId)
                    player == Get(c.w.players, playerId)
                IN  IF Dist2(player.x, player.y, foodItem.x, foodItem.y)
                         < player.radius * player.radius
                    THEN IF c.draws >= MaxDraws THEN {}
                         ELSE UNION {foodLoop(Pass(w2, c.pairs, c.draws + 1, c.events),
                                              qi, playerId, fi) :
                                       w2 \in spawnFoodAny(
                                                 eatFood(c.w, qi, playerId, foodId))}
                    ELSE foodLoop(c, qi, playerId, fi + 1)

\* The loop over playerIds (other players of the quadrant) for one player.
RECURSIVE pairLoop(_, _, _, _)
pairLoop(c, playerIds, playerId, oi) ==
    IF oi > Len(playerIds) THEN {c}
    ELSE
      LET otherPlayerId == playerIds[oi]
          pairKey == {playerId, otherPlayerId}
          c1 == [c EXCEPT !.pairs = @ \cup {pairKey}]
      IN  IF playerId = otherPlayerId \/ pairKey \in c.pairs
          THEN pairLoop(c, playerIds, playerId, oi + 1)
          ELSE IF ~Has(c.w.players, otherPlayerId)
          THEN pairLoop(c1, playerIds, playerId, oi + 1)
          ELSE UNION {pairLoop(c2, playerIds, playerId, oi + 1) :
                        c2 \in checkPlayerCollision(c1, playerId, otherPlayerId)}

\* The loop over playerIds of one quadrant.
RECURSIVE playerLoop(_, _, _, _)
playerLoop(c, qi, playerIds, pi) ==
    IF pi > Len(playerIds) THEN {c}
    ELSE
      LET playerId == playerIds[pi]
      IN  IF ~Has(c.w.players, playerId) THEN playerLoop(c, qi, playerIds, pi + 1)
          ELSE UNION {playerLoop(c2, qi, playerIds, pi + 1) :
                        c2 \in UNION {pairLoop(c1, playerIds, playerId, 1) :
                                        c1 \in foodLoop(c, qi, playerId, 1)}}

\* The loop over this.quadrants, from position qi on.  A quadrant without
\* players has an empty loop body, so the loop goes on at the next quadrant
\* that holds a player id.
RECURSIVE quadrantLoop(_, _)
quadrantLoop(c, qi) ==
    LET rest == {i \in qi .. Len(c.w.quadrants) : c.w.quadrants[i].players # <<>>}
        qn == CHOOSE i \in rest : \A j \in rest : i <= j
    IN  IF rest = {} THEN {c}
        ELSE UNION {quadrantLoop(c1, qn + 1) :
                      c1 \in playerLoop(c, qn, c.w.quadrants[qn].players, 1)}

\* checkCollisions(): the states one pass can end in, with processedPairs
\* and the events it emitted.
collisionPass(w) == quadrantLoop(Pass(w, {}, 0, <<>>), 1)
\* checkCollisions(): the worlds one pass can end in.
checkCollisions(w) == {c.w : c \in collisionPass(w)}

\* --------------------------------------------------------- merge check
\* mergeInto with the radius of the parent left as it was.
mergeIntoStaleRadius(w, playerId) ==
    LET player == Get(w.players, playerId)
        parent == Get(w.players, player.parentId)
        parent1 == [parent EXCEPT
                      !.mass = @ + player.mass,
                      !.score = @ + player.score,
                      !.splitParts = SelectSeq(@, LAMBDA id : id # playerId)]
        q1 == IF player.quadrant # Undefined /\ Has(w.quadrants, player.quadrant)
              THEN [w.quadrants EXCEPT
                      ![IdxOf(w.quadrants, player.quadrant)].players =
                          SetDelete(@, playerId)]
              ELSE w.quadrants
    IN  World(MapDelete(MapSet(w.players, parent1), playerId), w.food, q1)

\* The body of the `if` of checkMerge(): the parent absorbs the fragment,
\* which leaves the parent's list, the map and the quadrant it recorded.
mergeInto(w, playerId) ==
    LET player == Get(w.players, playerId)
        parent == Get(w.players, player.parentId)
        parent1 == [parent EXCEPT
                      !.mass = @ + player.mass,
                      !.radius = massToRadius(parent.mass + player.mass),
                      !.score = @ + player.score,
                      !.splitParts = SelectSeq(@, LAMBDA id : id # playerId)]
        q1 == IF player.quadrant # Undefined /\ Has(w.quadrants, player.quadrant)
              THEN [w.quadrants EXCEPT
                      ![IdxOf(w.quadrants, player.quadrant)].players =
                          SetDelete(@, playerId)]
              ELSE w.quadrants
    IN  World(MapDelete(MapSet(w.players, parent1), playerId), w.food, q1)

\* The loop of checkMerge() over playersArray (the entries at its start).
RECURSIVE mergeLoop(_, _, _)
mergeLoop(w, playersArray, i) ==
    IF i > Len(playersArray) THEN w
    ELSE
      LET playerId == playersArray[i]
          player == Get(w.players, playerId)
          parent == Get(w.players, player.parentId)
          reach == parent.radius * 2
      IN  IF /\ player.parentId # Undefined
             /\ Has(w.players, player.parentId)
             /\ Dist2(player.x, player.y, parent.x, parent.y) < reach * reach
          THEN mergeLoop(mergeInto(w, playerId), playersArray, i + 1)
          ELSE mergeLoop(w, playersArray, i + 1)

\* checkMerge()
checkMerge(w) ==
    mergeLoop(w, [i \in 1 .. Len(w.players) |-> w.players[i].id], 1)

\* ------------------------------------------------------------ game loop
\* deltaTime >= targetFrameTime, targetFrameTime = 1000 / UPDATE_RATE
tickDue == (now - lastUpdateTime) * UPDATE_RATE >= 1000
\* currentTime - lastBroadcastTime >= targetBroadcastTime
broadcastDue == (now - lastBroadcastTime) * BROADCAST_RATE >= 1000

\* const gameState = {players: ..., food: ...} of the broadcast branch.
gameState(w) ==
    [players |-> [i \in 1 .. Len(w.players) |->
                    LET p == w.players[i]
                    IN  [id |-> p.id, x |-> p.x, y |-> p.y, radius |-> p.radius,
                         mass |-> Round(p.mass), color |-> p.color,
                         name |-> p.name, isBot |-> p.isBot,
                         parentId |-> p.parentId, score |-> p.score]],
     food |-> [i \in 1 .. Len(w.food) |->
                 LET f == w.food[i]
                 IN  [id |-> f.id, x |-> f.x, y |-> f.y, radius |-> f.radius]]]

\* gameLoop without its last statement: nothing schedules the next one.
setImmediateNever(queued) == queued

\* setImmediate(gameLoop) of a driver that queues the callback twice.
setImmediateTwice(queued) == queued + 2

\* setImmediate(gameLoop), the last statement of gameLoop: one more callback
\* in the queue.
setImmediate(queued) == queued + 1

\* One invocation of gameLoop, taken from the setImmediate queue (the first
\* one is called by startGameLoop during construction); its last statement
\* schedules the next.
GameLoop ==
    /\ \E c \in (IF tickDue THEN collisionPass(World(players, food, quadrants))
                 ELSE {Pass(World(players, food, quadrants), {}, 0, <<>>)}) :
          LET w1 == IF tickDue THEN checkMerge(c.w) ELSE c.w
          IN  /\ players' = w1.players
              /\ food' = w1.food
              /\ quadrants' = w1.quadrants
              /\ emitted' = c.events \o
                    (IF broadcastDue
                     THEN <<BroadcastEmit("gameUpdate", gameState(w1))>>
                     ELSE <<>>)
    /\ lastUpdateTime' = IF tickDue THEN now ELSE lastUpdateTime
    /\ lastBroadcastTime' = IF broadcastDue THEN now ELSE lastBroadcastTime
    /\ immediates > 0
    /\ immediates' = setImmediate(immediates - 1)
    /\ UNCHANGED <<sockets, now, commands, handlers, arena, pending>>

Next ==
    \/ \E d \in ClockSteps : AdvanceClock(d)
    \/ \E s \in Sockets : Connect(s)
    \/ \E s \in Sockets, r \in JoinDraws :
          Join(s, NameInput(s), <<r[1], r[2]>>, r[3])
    \/ \E s \in Sockets, target \in Targets : Move(s, target)
    \/ \E s \in Sockets, angle \in Angles : Split(s, angle)
    \/ \E s \in Sockets : Disconnect(s)
    \/ GameLoop

Spec == Init /\ [][Next]_vars

\* The same server and clients with the clock going from 0 to the broadcast
\* period in one step, so that gameLoop takes its broadcast branch.
NextBroadcast ==
    \/ AwaitBroadcast
    \/ \E s \in Sockets : Connect(s)
    \/ \E s \in Sockets, r \in JoinDraws :
          Join(s, NameInput(s), <<r[1], r[2]>>, r[3])
    \/ \E s \in Sockets, target \in Targets : Move(s, target)
    \/ \E s \in Sockets, angle \in Angles : Split(s, angle)
    \/ \E s \in Sockets : Disconnect(s)
    \/ GameLoop

SpecBroadcast == Init /\ [][NextBroadcast]_vars

\* Time goes by between two callbacks, over several broadcast periods.
Elapse(d) ==
    /\ now + d <= MaxLoopClock
    /\ now' = now + d
    /\ emitted' = <<>>
    /\ UNCHANGED <<players, food, quadrants, sockets, lastUpdateTime,
                   lastBroadcastTime, commands, handlers, arena, pending, immediates>>

\* The game loop followed over several broadcast periods while clients
\* connect and join.
NextLoop ==
    \/ \E d \in LoopSteps : Elapse(d)
    \/ \E s \in Sockets : Connect(s)
    \/ \E s \in Sockets, r \in JoinDraws :
          Join(s, NameInput(s), <<r[1], r[2]>>, r[3])
    \/ GameLoop

SpecLoop == Init /\ [][NextLoop]_vars

\* ------------------------------------------------- the class with bots
\* The last class of the file keeps its cells in a grid rebuilt every frame
\* and moves bots in updateBots().  Its positions are kept in 1/PosUnit
\* (the speed of a bot, max(1.2, 5 - mass / 60), is a whole number of these
\* for an even mass); cells and food of a run lie on one row, where
\* Math.sqrt(dx * dx + dy * dy) is |dx|.
PosUnit == 30
GRID_SIZE == 300
GRID_COLS == (WORLD_WIDTH + GRID_SIZE - 1) \div GRID_SIZE
GRID_ROWS == (WORLD_HEIGHT + GRID_SIZE - 1) \div GRID_SIZE
\* Last frame the runs with bots explore.
MaxFrames == 8

\* bot.id.charCodeAt(0): the ids given by spawnBots are "bot_" followed by
\* the index, so the first code unit is that of "b" for every bot.
charCodeAt0(id) == IF id[1] = "bot" THEN 98 ELSE 0

Arena(ps, fs, frameCount, lastTime) ==
    [players |-> ps, food |-> fs, frameCount |-> frameCount, lastTime |-> lastTime]

\* this.distance(x1, y1, x2, y2)
distance(x1, y1, x2, y2) ==
    IF y1 = y2 THEN Abs(x2 - x1)
    ELSE IF x1 = x2 THEN Abs(y2 - y1)
    ELSE ISqrt(Dist2(x1, y1, x2, y2))

getGridCell(x, y) == <<x \div (GRID_SIZE * PosUnit), y \div (GRID_SIZE * PosUnit)>>

InGrid(cell) ==
    /\ cell[1] >= 0 /\ cell[1] < GRID_COLS
    /\ cell[2] >= 0 /\ cell[2] < GRID_ROWS

\* updateSpatialGrid(): the grid as the list, in map order, of the ids
\* registered and the cell each is registered in.
updateSpatialGrid(a) ==
    [players |-> SelectSeq([i \in 1 .. Len(a.players) |->
                               [id |-> a.players[i].id,
                                cell |-> getGridCell(a.players[i].x, a.players[i].y)]],
                           LAMBDA e : InGrid(e.cell)),
     food |-> SelectSeq([i \in 1 .. Len(a.food) |->
                            [id |-> a.food[i].id,
                             cell |-> getGridCell(a.food[i].x, a.food[i].y)]],
                        LAMBDA e : InGrid(e.cell))]

\* The ids of this.spatialGrid[col][row].players (or .food), in set order.
GridIds(entries, cell) ==
    LET there == SelectSeq(entries, LAMBDA e : e.cell = cell)
    IN  [i \in 1 .. Len(there) |-> there[i].id]

\* The cells visited by the loops over dx and dy, from the k-th on, with
\* the ids each holds.
RECURSIVE NearbyIds(_, _, _, _)
NearbyIds(entries, centerCell, searchRadius, k) ==
    LET side == 2 * searchRadius + 1
        cell == <<centerCell[1] - searchRadius + ((k - 1) \div side),
                  centerCell[2] - searchRadius + ((k - 1) % side)>>
    IN  IF k > side * side THEN <<>>
        ELSE (IF InGrid(cell) THEN GridIds(entries, cell) ELSE <<>>)
             \o NearbyIds(entries, centerCell, searchRadius, k + 1)

\* getNearbyPlayers(player, range) with the cells next to the center cell
\* searched whatever the range.
getNearbyPlayersAdjacent(a, grid, player, range) ==
    LET centerCell == getGridCell(player.x, player.y)
        ids == SelectSeq(NearbyIds(grid.players, centerCell, 1, 1),
                         LAMBDA id :
                            /\ id # player.id
                            /\ Has(a.players, id)
                            /\ distance(player.x, player.y,
                                        Get(a.players, id).x, Get(a.players, id).y)
                                  <= range * PosUnit)
    IN  [i \in 1 .. Len(ids) |-> Get(a.players, ids[i])]

\* getNearbyPlayers(player, range), range in world units.
getNearbyPlayers(a, grid, player, range) ==
    LET centerCell == getGridCell(player.x, player.y)
        searchRadius == (range + GRID_SIZE - 1) \div GRID_SIZE
        ids == SelectSeq(NearbyIds(grid.players, centerCell, searchRadius, 1),
                         LAMBDA id :
                            /\ id # player.id
                            /\ Has(a.players, id)
                            /\ distance(player.x, player.y,
                                        Get(a.players, id).x, Get(a.players, id).y)
                                  <= range * PosUnit)
    IN  [i \in 1 .. Len(ids) |-> Get(a.players, ids[i])]

\* getNearbyFood(player, range)
getNearbyFood(a, grid, player, range) ==
    LET centerCell == getGridCell(player.x, player.y)
        searchRadius == (range + GRID_SIZE - 1) \div GRID_SIZE
        ids == SelectSeq(NearbyIds(grid.food, centerCell, searchRadius, 1),
                         LAMBDA id :
                            /\ Has(a.food, id)
                            /\ distance(player.x, player.y,
                                        Get(a.food, id).x, Get(a.food, id).y)
                                  <= range * PosUnit)
    IN  [i \in 1 .. Len(ids) |-> Get(a.food, ids[i])]

\* updateBotBehavior(bot); aggression is kept in hundredths.
updateBotBehavior(bot) ==
    IF bot.mass > 100
    THEN [bot EXCEPT !.behavior = "hunter", !.aggression = Min(100, @ + 5)]
    ELSE IF bot.mass < 30 THEN [bot EXCEPT !.behavior = "prey"]
    ELSE bot

\* Priorities are kept as multiples of 1 / PriorityUnit(bot), in which
\* dist / 6, dist / 8 and 50 * player.mass / bot.mass are whole numbers.
PriorityUnit(bot) == 24 * PosUnit * bot.mass

\* The priority findBestTarget gives to a player at distance dist.
playerPriority(bot, player, dist) ==
    LET unit == PriorityUnit(bot)
    IN  IF 5 * player.mass < 4 * bot.mass
        THEN 100 * unit - 4 * bot.mass * dist
             + 50 * (((4 * unit) \div 5) - 24 * PosUnit * player.mass)
             + (IF bot.behavior = "hunter" THEN 50 * unit ELSE 0)
             - (IF player.isBot THEN 30 * unit ELSE 0)
        ELSE IF 5 * player.mass > 6 * bot.mass THEN 5 * unit
        ELSE 0

\* The priority findBestTarget gives to a food item at distance dist.
foodPriority(bot, foodItem, dist) ==
    LET unit == PriorityUnit(bot)
    IN  60 * unit - 3 * bot.mass * dist + foodItem.radius * unit

NoTarget == [found |-> FALSE, x |-> 0, y |-> 0, priority |-> 0]

\* The loop of findBestTarget over nearbyPlayers, from position i on.
RECURSIVE bestPlayer(_, _, _, _)
bestPlayer(bot, nearbyPlayers, i, best) ==
    IF i > Len(nearbyPlayers) THEN best
    ELSE
      LET player == nearbyPlayers[i]
          dist == distance(bot.x, bot.y, player.x, player.y)
          priority == playerPriority(bot, player, dist)
      IN  IF priority > best.priority /\ priority > 40 * PriorityUnit(bot)
          THEN bestPlayer(bot, nearbyPlayers, i + 1,
                          [found |-> TRUE, x |-> player.x, y |-> player.y,
                           priority |-> priority])
          ELSE bestPlayer(bot, nearbyPlayers, i + 1, best)

\* The loop of findBestTarget over nearbyFood, from position i on.
RECURSIVE bestFood(_, _, _, _)
bestFood(bot, nearbyFood, i, best) ==
    IF i > Len(nearbyFood) THEN best
    ELSE
      LET foodItem == nearbyFood[i]
          dist == distance(bot.x, bot.y, foodItem.x, foodItem.y)
          priority == foodPriority(bot, foodItem, dist)
      IN  IF priority > best.priority
          THEN bestFood(bot, nearbyFood, i + 1,
                        [found |-> TRUE, x |-> foodItem.x, y |-> foodItem.y,
                         priority |-> priority])
          ELSE bestFood(bot, nearbyFood, i + 1, best)

\* findBestTarget(bot) with the food sought whatever the players gave.
findBestTargetFoodAlways(a, grid, bot) ==
    LET visionRange == IF bot.behavior = "hunter" THEN 600 ELSE 400
        afterPlayers == bestPlayer(bot, getNearbyPlayers(a, grid, bot, visionRange),
                                   1, NoTarget)
    IN  bestFood(bot, getNearbyFood(a, grid, bot, 300), 1,
                 [afterPlayers EXCEPT !.priority = 0])

\* findBestTarget(bot)
findBestTarget(a, grid, bot) ==
    LET visionRange == IF bot.behavior = "hunter" THEN 600 ELSE 400
        afterPlayers == bestPlayer(bot, getNearbyPlayers(a, grid, bot, visionRange),
                                   1, NoTarget)
    IN  IF ~afterPlayers.found \/ afterPlayers.priority < 70 * PriorityUnit(bot)
        THEN bestFood(bot, getNearbyFood(a, grid, bot, 300), 1, afterPlayers)
        ELSE afterPlayers

\* moveBotTowardsTarget(bot), for a target on the bot's row or column.
moveBotTowardsTarget(bot) ==
    LET dx == bot.targetX - bot.x
        dy == bot.targetY - bot.y
        dist == distance(bot.x, bot.y, bot.targetX, bot.targetY)
        baseSpeed == Max((6 * PosUnit) \div 5,
                         5 * PosUnit - ((PosUnit * bot.mass) \div 60))
        moveX == RoundDiv(dx * baseSpeed, dist)
        moveY == RoundDiv(dy * baseSpeed, dist)
        lowX == bot.radius * PosUnit
        highX == (WORLD_WIDTH - bot.radius) * PosUnit
        highY == (WORLD_HEIGHT - bot.radius) * PosUnit
    IN  IF bot.targetX = 0 \/ bot.targetY = 0 THEN bot
        ELSE IF dist > 10 * PosUnit
        THEN [bot EXCEPT !.x = Max(lowX, Min(highX, bot.x + moveX)),
                         !.y = Max(lowX, Min(highY, bot.y + moveY))]
        ELSE bot

\* Values of Math.random() * WORLD_WIDTH, Math.random() * WORLD_HEIGHT for
\* the wander target of a bot.
WanderTargets == {<<2000 * PosUnit, 1000 * PosUnit>>, <<500 * PosUnit, 1000 * PosUnit>>}

\* The test of updateBots that lets a bot through on this frame.
updateFrequency(bot) == 3 + (charCodeAt0(bot.id) % 3)
Reevaluates(frameCount, bot) ==
    frameCount % updateFrequency(bot) = charCodeAt0(bot.id) % updateFrequency(bot)

\* The body of the loop of updateBots for one bot that is let through.
updateBot(a, grid, currentTime, bot) ==
    LET bot1 == updateBotBehavior(bot)
        target == findBestTarget([a EXCEPT !.players = MapSet(a.players, bot1)],
                                 grid, bot1)
        wander == \/ bot1.targetX = 0
                  \/ bot1.targetY = 0
                  \/ currentTime - bot1.lastTargetChange > 8000
                  \/ distance(bot1.x, bot1.y, bot1.targetX, bot1.targetY)
                        < 50 * PosUnit
        aimed == IF target.found
                 THEN {[bot1 EXCEPT !.targetX = target.x, !.targetY = target.y,
                                    !.lastTargetChange = currentTime]}
                 ELSE IF wander
                 THEN {[bot1 EXCEPT !.targetX = t[1], !.targetY = t[2],
                                    !.lastTargetChange = currentTime] :
                         t \in WanderTargets}
                 ELSE {bot1}
    IN  {[a EXCEPT !.players = MapSet(a.players, moveBotTowardsTarget(bot2))] :
           bot2 \in aimed}

\* The loop of updateBots over this.players, from position i on.
RECURSIVE botLoop(_, _, _, _)
botLoop(a, grid, currentTime, i) ==
    IF i > Len(a.players) THEN {a}
    ELSE
      LET bot == a.players[i]
      IN  IF ~bot.isBot \/ ~Reevaluates(a.frameCount, bot)
          THEN botLoop(a, grid, currentTime, i + 1)
          ELSE UNION {botLoop(a1, grid, currentTime, i + 1) :
                        a1 \in updateBot(a, grid, currentTime, bot)}

\* updateBots(), with the grid updateSpatialGrid() left.
updateBots(a, grid, currentTime) ==
    botLoop([a EXCEPT !.frameCount = @ + 1], grid, currentTime, 1)

\* massToRadius(mass) of the class with bots, Math.sqrt(mass) * 2, rounded up.
gridMassToRadius(mass) ==
    CHOOSE r \in 0 .. 100 : r * r >= 4 * mass /\ (r - 1) * (r - 1) < 4 * mass

\* A cell of the class with bots: a spawned one has BASE_RADIUS as mass and
\* as radius, a grown one the radius of its mass.
BotCell(id, x, y, mass, isBot, behavior, targetX) ==
    [id |-> id, x |-> x * PosUnit, y |-> y * PosUnit,
     radius |-> IF mass = BASE_RADIUS THEN BASE_RADIUS ELSE gridMassToRadius(mass),
     mass |-> mass, isBot |-> isBot, behavior |-> behavior, aggression |-> 80,
     targetX |-> targetX * PosUnit, targetY |-> 1000 * PosUnit,
     lastTargetChange |-> 0]

\* The worlds the runs with bots start in: a bot of mass 150 at x = 1000, a
\* spawned bot of mass 20, or one that has grown to mass 50 as prey, near it
\* or far from it, a human cell of mass 100 or 130 at distance 300 or 560
\* on the bot's row, at distance 500 on the next row of the grid or at the
\* right border of the world, and no food or one food item of radius 8 at
\* distance 30 or 290 of the bot or (with all cells on one row) at the
\* right border.
BotInputs ==
    LET draws == {q \in {<<1300, 1000>>, <<1560, 1000>>, <<1300, 1400>>, <<4970, 1000>>}
                         \X {100, 130} \X {1200, 1900}
                         \X {<<20, "neutral">>, <<50, "prey">>}
                         \X {0, 1030, 1290, 4995} :
                    q[5] = 4995 => q[1][2] = 1000}
    IN  {Arena(<<BotCell(<<"bot", 0>>, 1000, 1000, 150, TRUE, "neutral", 2000),
                 BotCell(<<"s1">>, q[1][1], q[1][2], q[2], FALSE, "neutral", 0),
                 BotCell(<<"bot", 1>>, q[3], 1000, q[4][1], TRUE, q[4][2], 2000)>>,
               IF q[5] = 0 THEN <<>>
               ELSE <<[id |-> 1, x |-> q[5] * PosUnit, y |-> 1000 * PosUnit,
                       radius |-> 8]>>,
               0, 0) :
           q \in draws}

InitBots ==
    /\ \E w \in initializeFood(World(<<>>, <<>>, initializeQuadrants), FOOD_COUNT) :
          /\ players = w.players
          /\ food = w.food
          /\ quadrants = w.quadrants
    /\ sockets = [s \in Sockets |-> "idle"]
    /\ now = 0
    /\ lastUpdateTime = 0
    /\ lastBroadcastTime = 0
    /\ commands = 0
    /\ emitted = <<>>
    /\ handlers = [e \in Sockets \cup {"io"} |->
                      IF e = "io" THEN {"connection"} ELSE {}]
    /\ arena \in BotInputs
    /\ pending = {}
    /\ immediates = 1

\* No cell touches a food item or another cell: checkCollisions() finds
\* nothing to eat.
NoContact(a) ==
    /\ \A i \in 1 .. Len(a.players), f \in 1 .. Len(a.food) :
          distance(a.players[i].x, a.players[i].y, a.food[f].x, a.food[f].y)
            >= a.players[i].radius * PosUnit
    /\ \A i, j \in 1 .. Len(a.players) :
          i # j =>
            distance(a.players[i].x, a.players[i].y, a.players[j].x, a.players[j].y)
              >= (a.players[i].radius + a.players[j].radius) * PosUnit

\* The projection of the world the loop of the class with bots emits.
gridGameState(a) ==
    [players |-> [i \in 1 .. Len(a.players) |->
                    [id |-> a.players[i].id, x |-> a.players[i].x,
                     y |-> a.players[i].y, radius |-> a.players[i].radius,
                     mass |-> a.players[i].mass, isBot |-> a.players[i].isBot]],
     food |-> a.food]

\* setTimeout(gameLoop, waitTime) has run out, or gameLoop has not run yet.
FrameDue ==
    arena.frameCount = 0 \/ (now - arena.lastTime) * UPDATE_RATE >= 1000

\* One run of gameLoop of the class with bots: updateSpatialGrid(),
\* updateBots(), checkCollisions() on every second frame, and the emission
\* of gameUpdate.  The first run is the call of startGameLoop, a later one
\* is due targetFrameTime after the one before.  The frames explored are
\* those on which nothing touches, where checkCollisions() changes nothing.
UpdateBots ==
    /\ arena.frameCount < MaxFrames
    /\ FrameDue
    /\ \E a \in updateBots(arena, updateSpatialGrid(arena), now) :
          /\ NoContact(a)
          /\ arena' = [a EXCEPT !.lastTime = now]
          /\ emitted' = <<BroadcastEmit("gameUpdate", gridGameState(a))>>
    /\ UNCHANGED <<players, food, quadrants, sockets, now, lastUpdateTime,
                   lastBroadcastTime, commands, handlers, pending, immediates>>

NextBots ==
    \/ \E d \in LoopSteps : Elapse(d)
    \/ UpdateBots

SpecBots == InitBots /\ [][NextBots]_vars

\* C23: a hunter bot that re-evaluates with a cell of mass below 0.8 of its
\* own in its vision range of 600, scoring above the threshold of 40 and
\* above every other candidate (the other cells in view and the food items
\* within the food range of 300), has that cell's position as its target
\* after the frame, with or without food in view.
C23_HunterTargetsBestCandidate ==
    [][arena'.frameCount = arena.frameCount + 1 =>
         \A i \in 1 .. Len(arena.players) :
           LET bot == updateBotBehavior(arena.players[i])
               inView == {j \in 1 .. Len(arena.players) :
                            /\ j # i
                            /\ distance(bot.x, bot.y, arena.players[j].x,
                                        arena.players[j].y) <= 600 * PosUnit}
               foodInView == {f \in 1 .. Len(arena.food) :
                                distance(bot.x, bot.y, arena.food[f].x,
                                         arena.food[f].y) <= 300 * PosUnit}
               score(j) == playerPriority(bot, arena.players[j],
                              distance(bot.x, bot.y, arena.players[j].x,
                                       arena.players[j].y))
               foodScore(f) == foodPriority(bot, arena.food[f],
                                  distance(bot.x, bot.y, arena.food[f].x,
                                           arena.food[f].y))
           IN  /\ bot.isBot
               /\ bot.behavior = "hunter"
               /\ Reevaluates(arena'.frameCount, bot)
               => \A j \in inView :
                    /\ 5 * arena.players[j].mass < 4 * bot.mass
                    /\ score(j) > 40 * PriorityUnit(bot)
                    /\ \A k \in inView \ {j} : score(j) > score(k)
                    /\ \A f \in foodInView : score(j) > foodScore(f)
                    => /\ arena'.players[i].targetX = arena.players[j].x
                       /\ arena'.players[i].targetY = arena.players[j].y]_vars

\* ------------------------------------------------ events without a listener
\* The events of the socket test that no socket.on call of the server names.
ClientEvents == {"join-game"}

\* A connected client emits an event; the transport holds it until the
\* server dispatches it.
ClientEmits(s, e) ==
    /\ sockets[s] = "open"
    /\ <<s, e>> \notin pending
    /\ pending' = pending \cup {<<s, e>>}
    /\ UNCHANGED <<players, food, quadrants, sockets, now, lastUpdateTime,
                   lastBroadcastTime, commands, emitted, handlers, arena,
                   immediates>>

\* The server dispatches an event for which the socket has no listener: no
\* callback runs and nothing is emitted.
DispatchUnhandled(s, e) ==
    /\ sockets[s] = "open"
    /\ <<s, e>> \in pending
    /\ e \notin handlers[s]
    /\ pending' = pending \ {<<s, e>>}
    /\ UNCHANGED <<players, food, quadrants, sockets, now, lastUpdateTime,
                   lastBroadcastTime, commands, emitted, handlers, arena,
                   immediates>>

Dispatch == \E s \in Sockets, e \in ClientEvents : DispatchUnhandled(s, e)

NextEvents ==
    \/ \E d \in ClockSteps : AdvanceClock(d)
    \/ \E s \in Sockets : Connect(s)
    \/ \E s \in Sockets, r \in JoinDraws :
          Join(s, NameInput(s), <<r[1], r[2]>>, r[3])
    \/ \E s \in Sockets, e \in ClientEvents : ClientEmits(s, e)
    \/ Dispatch
    \/ GameLoop

\* The transport delivers every event a client emitted on an open socket.
SpecEvents == Init /\ [][NextEvents]_vars /\ WF_vars(Dispatch)

\* C24: when a connected client has emitted join-game, the server eventually
\* emits game-joined, with a payload, to that client.
C24_JoinGameAnswered ==
    \A s \in Sockets :
      (<<s, "join-game">> \in pending)
        ~> (\E i \in 1 .. Len(emitted) :
              /\ emitted[i].event = "game-joined"
              /\ s \in Recipients(emitted[i], sockets)
              /\ emitted[i].payload # <<>>)

\* C31: after a frame on which a bot re-evaluates, its behavior is hunter
\* when its mass is above 100, prey when its mass is below 30 and neutral
\* otherwise, and its aggression has not decreased and is at most 1.0.
C31_BehaviorFollowsMass ==
    [][arena'.frameCount = arena.frameCount + 1 =>
         \A i \in 1 .. Len(arena.players) :
           (arena.players[i].isBot /\ Reevaluates(arena'.frameCount, arena.players[i])) =>
             /\ arena'.players[i].behavior =
                   IF arena'.players[i].mass > 100 THEN "hunter"
                   ELSE IF arena'.players[i].mass < 30 THEN "prey"
                   ELSE "neutral"
             /\ arena'.players[i].aggression >= arena.players[i].aggression
             /\ arena'.players[i].aggression <= 100]_vars

\* C32: on a frame on which a bot re-evaluates, its target becomes the
\* position of a candidate (a cell within its vision range or a food item
\* within the food range of 300) only if that candidate scores above the
\* threshold of 40 and no candidate in view scores higher; and when no
\* candidate scores above the threshold the target becomes a wander point.
C32_TargetIsBestAboveThreshold ==
    [][arena'.frameCount = arena.frameCount + 1 =>
         \A i \in 1 .. Len(arena.players) :
           LET bot == updateBotBehavior(arena.players[i])
               visionRange == IF bot.behavior = "hunter" THEN 600 ELSE 400
               cellsInView == {j \in 1 .. Len(arena.players) :
                                 /\ j # i
                                 /\ distance(bot.x, bot.y, arena.players[j].x,
                                             arena.players[j].y)
                                       <= visionRange * PosUnit}
               foodInView == {f \in 1 .. Len(arena.food) :
                                distance(bot.x, bot.y, arena.food[f].x,
                                         arena.food[f].y) <= 300 * PosUnit}
               candidates ==
                   {[x |-> arena.players[j].x, y |-> arena.players[j].y,
                     score |-> playerPriority(bot, arena.players[j],
                                  distance(bot.x, bot.y, arena.players[j].x,
                                           arena.players[j].y))] :
                      j \in cellsInView}
                   \cup
                   {[x |-> arena.food[f].x, y |-> arena.food[f].y,
                     score |-> foodPriority(bot, arena.food[f],
                                  distance(bot.x, bot.y, arena.food[f].x,
                                           arena.food[f].y))] :
                      f \in foodInView}
               threshold == 40 * PriorityUnit(bot)
               bot1 == arena'.players[i]
           IN  (bot.isBot /\ Reevaluates(arena'.frameCount, bot)) =>
                 /\ \A c \in candidates :
                       (bot1.targetX = c.x /\ bot1.targetY = c.y) =>
                          /\ c.score > threshold
                          /\ \A c2 \in candidates : c.score >= c2.score
                 /\ (\A c \in candidates : c.score <= threshold) =>
                       <<bot1.targetX, bot1.targetY>> \in WanderTargets]_vars

\* Ranges the class with bots queries the grid with: a contact range of
\* checkCollisions, the food range and the two vision ranges.
QueryRanges == {30, 300, 400, 600}

\* C33: with the grid just rebuilt at the start of a frame,
\* getNearbyPlayers(p, r) returns, each once, exactly the live cells other
\* than p at distance <= r of p, and getNearbyFood(p, r) exactly the live
\* food items at distance <= r.
C33_GridQueryIsBruteForce ==
    LET grid == updateSpatialGrid(arena)
    IN  FrameDue => \A i \in 1 .. Len(arena.players) : \A r \in QueryRanges :
          LET p == arena.players[i]
              cells == getNearbyPlayers(arena, grid, p, r)
              items == getNearbyFood(arena, grid, p, r)
          IN  /\ Range(cells) =
                    {q \in Range(arena.players) :
                       /\ q.id # p.id
                       /\ distance(p.x, p.y, q.x, q.y) <= r * PosUnit}
              /\ Len(cells) = Cardinality(Range(cells))
              /\ Range(items) =
                    {f \in Range(arena.food) :
                       distance(p.x, p.y, f.x, f.y) <= r * PosUnit}
              /\ Len(items) = Cardinality(Range(items))

\* A frame after the first is due, and a query from the bot of mass 150
\* with its vision range on the rebuilt grid finds the human cell two grid
\* cells away.
C33_Witness ==
    /\ arena.frameCount >= 1
    /\ FrameDue
    /\ Len(arena.players) = 3
    /\ getGridCell(arena.players[2].x, arena.players[2].y)[1]
          = getGridCell(arena.players[1].x, arena.players[1].y)[1] + 2
    /\ arena.players[2] \in
          Range(getNearbyPlayers(arena, updateSpatialGrid(arena), arena.players[1], 600))

\* C30: on a frame on which some bot re-evaluates its target, not every bot
\* does: the frames of re-evaluation differ across the bots.
C30_ReevaluationStaggered ==
    LET bots == {i \in 1 .. Len(arena.players) : arena.players[i].isBot}
    IN  /\ arena.frameCount > 0
        /\ \E i \in bots : Reevaluates(arena.frameCount, arena.players[i])
        => \E j \in bots : ~Reevaluates(arena.frameCount, arena.players[j])

\* The bot of mass 150 has re-evaluated with the human cell of mass 100 at
\* distance 300 and a food item at distance 30, and aims at the cell.
C23_Witness ==
    /\ arena.frameCount >= 3
    /\ Len(arena.food) = 1
    /\ arena.food[1].x = 1030 * PosUnit
    /\ arena.players[1].behavior = "hunter"
    /\ arena.players[1].mass = 150
    /\ arena.players[2].mass = 100
    /\ arena.players[2].x = 1300 * PosUnit
    /\ arena.players[1].targetX = arena.players[2].x
    /\ arena.players[1].targetY = arena.players[2].y

\* ======================================================================
\* Properties
\* ======================================================================
\* The maps of the current state.
Current == World(players, food, quadrants)
\* The live cells, as a set of records.
Cells == Range(players)
\* The top-level cell a cell belongs to.
Owner(cell) == IF cell.parentId = Undefined THEN cell.id ELSE cell.parentId
\* The circles of two cells overlap: distance < radiusA + radiusB.
Overlap(a, b) ==
    Dist2(a.x, a.y, b.x, b.y) < (a.radius + b.radius) * (a.radius + b.radius)
\* A collision pass has run at the current clock reading.
TickRan == now > 0 /\ lastUpdateTime = now

\* C1: in every reachable state the number of live food items is
\* FOOD_COUNT and no two of them share an identifier, and every collision
\* pass that can start in the state (a tick is due) ends with FOOD_COUNT
\* food items again
\* (each food removed in the pass is replaced by exactly one spawned item).
C1_FoodCountConstant ==
    /\ Len(food) = FOOD_COUNT
    /\ Cardinality({food[i].id : i \in 1 .. Len(food)}) = FOOD_COUNT
    /\ tickDue =>
          \A w \in checkCollisions(Current) :
              /\ Len(w.food) = FOOD_COUNT
              /\ Cardinality({w.food[i].id : i \in 1 .. Len(w.food)}) = FOOD_COUNT

\* A cell has eaten one food item in a pass (base mass plus radius * 2) and
\* the food population is complete.
C1_Witness ==
    /\ TickRan
    /\ Len(food) = FOOD_COUNT
    /\ \E cell \in Cells : \E r \in FoodRadii :
          /\ cell.mass = BASE_MASS * MassUnit + 2 * r
          /\ cell.score = Round(2 * r)

\* The eaten cell was reset and the eater gained 0.8 of its mass.
EatenBy(before, after, eatenId, eaterId) ==
    LET eaten == Get(before.players, eatenId)
        eater == Get(before.players, eaterId)
        eaten1 == Get(after.players, eatenId)
        eater1 == Get(after.players, eaterId)
    IN  /\ eaten1.mass = BASE_MASS * MassUnit
        /\ eaten1.score = 0
        /\ <<eaten1.x, eaten1.y>> \in RandomPoints
        /\ eater1.mass = eater.mass + (4 * eaten.mass) \div 5
        /\ <<eater1.x, eater1.y>> = <<eater.x, eater.y>>

\* C3: checkPlayerCollision on two overlapping cells of different
\* lineages: the second is eaten when the first's mass is strictly above
\* 1.15 times its mass, the first is eaten in the symmetrical case, and in
\* every other case (ratio within [1, 1.15], 1.15 included) nothing at all
\* changes.
C3_EatIffRatioAbove ==
    \A a \in Cells : \A b \in Cells :
        (a.id # b.id /\ Owner(a) # Owner(b) /\ Overlap(a, b)) =>
            LET start == Pass(Current, {}, 0, <<>>)
                out == checkPlayerCollision(start, a.id, b.id)
            IN  /\ out # {}
                /\ IF 20 * a.mass > 23 * b.mass
                   THEN \A c \in out : EatenBy(Current, c.w, b.id, a.id)
                   ELSE IF 20 * b.mass > 23 * a.mass
                   THEN \A c \in out : EatenBy(Current, c.w, a.id, b.id)
                   ELSE out = {start}

\* C2: every live cell has radius = massToRadius(mass), in every state
\* between two callbacks (after each command handler and each tick).
C2_RadiusFromMass ==
    \A cell \in Cells : cell.radius = massToRadius(cell.mass)

\* Every cell with a parentId names a live cell that has no parentId.
ParentLive(map) ==
    \A i \in 1 .. Len(map) :
        map[i].parentId # Undefined =>
            /\ Has(map, map[i].parentId)
            /\ Get(map, map[i].parentId).parentId = Undefined

\* C4: at the end of every tick (a game-loop step that ran the collision
\* pass and the merge check) every cell with a parentId refers to a live
\* top-level cell.
C4_FragmentParentLive ==
    [][lastUpdateTime' # lastUpdateTime => ParentLive(players')]_vars

\* The disconnect handler of connection s runs in this step.
Disconnecting(s) == sockets[s] = "open" /\ sockets'[s] = "closed"

\* C5: after the disconnect handler of a connection, no cell has the
\* connection id as its id or as its parentId.
C5_DisconnectRemovesLineage ==
    [][\A s \in Sockets : Disconnecting(s) =>
          \A i \in 1 .. Len(players') :
              /\ players'[i].id # SocketId(s)
              /\ players'[i].parentId # SocketId(s)]_vars

\* C6: after the disconnect handler of a connection, no quadrant's player
\* set holds the id of its top-level cell or of one of its fragments (the
\* ids that begin with the connection id).
C6_DisconnectClearsQuadrants ==
    [][\A s \in Sockets : Disconnecting(s) =>
          \A i \in 1 .. Len(quadrants') :
              \A id \in Range(quadrants'[i].players) : id[1] # s]_vars

\* The quadrants whose player set holds the id.
QuadrantsHolding(id) ==
    {i \in 1 .. Len(quadrants) : id \in Range(quadrants[i].players)}

\* C7: when a collision pass starts, each live cell's id is in exactly one
\* quadrant's player set, the one of the cell's position.
C7_OneQuadrantPerCell ==
    tickDue =>
        \A cell \in Cells :
            /\ Cardinality(QuadrantsHolding(cell.id)) = 1
            /\ \A i \in QuadrantsHolding(cell.id) :
                  quadrants[i].id = getQuadrantId(cell.x, cell.y)

\* C8: handleSplit on a top-level cell of mass M >= MIN_SPLIT_MASS leaves
\* the source with mass M/2 and radius massToRadius(M/2) and adds exactly
\* one new live cell: mass M/2, radius massToRadius(M/2), parentId the
\* owner's id, score 0, the owner's colour and name, at distance
\* >= 2 * massToRadius(M/2) from the source; the two masses add up to M.
C8_SplitAddsOneHalf ==
    \A s \in Sockets : \A angle \in Angles :
        (/\ sockets[s] = "open"
         /\ Has(players, SocketId(s))
         /\ Get(players, SocketId(s)).mass >= MIN_SPLIT_MASS * MassUnit
         /\ Get(players, SocketId(s)).mass % 2 = 0) =>
            LET source == Get(players, SocketId(s))
                w == handleSplit(Current, SocketId(s), now, angle)
                source1 == Get(w.players, SocketId(s))
                added == {cell \in Range(w.players) : ~Has(players, cell.id)}
            IN  /\ 2 * source1.mass = source.mass
                /\ source1.radius = massToRadius(source1.mass)
                /\ Len(w.players) = Len(players) + 1
                /\ Cardinality(added) = 1
                /\ \A part \in added :
                      /\ 2 * part.mass = source.mass
                      /\ part.radius = massToRadius(part.mass)
                      /\ part.parentId = SocketId(s)
                      /\ part.score = 0
                      /\ part.color = source.color
                      /\ part.name = source.name
                      /\ Dist2(part.x, part.y, source1.x, source1.y)
                            >= (2 * part.radius) * (2 * part.radius)
                      /\ part.mass + source1.mass = source.mass

\* The worlds a merge check can start in when a tick starts in the current
\* state: the results of its collision pass.
MergeInputs == IF tickDue THEN checkCollisions(Current) ELSE {}
\* The fragment is nearer than parent.radius * 2 to the point.
WithinMergeDistance(parent, x1, y1, x2, y2) ==
    Dist2(x1, y1, x2, y2) < (parent.radius * 2) * (parent.radius * 2)

C10_MoveKeepsInsideWorld ==
    \A cell \in Cells : \A target \in Targets :
        LET w == movePlayerTowardsTarget(Current, cell.id, target[1], target[2])
            cell1 == Get(w.players, cell.id)
        IN  /\ cell1.radius <= cell1.x
            /\ cell1.x <= WORLD_WIDTH - cell1.radius
            /\ cell1.radius <= cell1.y
            /\ cell1.y <= WORLD_HEIGHT - cell1.radius

\* C11: when a fragment is eaten in a collision pass (the pass emits a
\* playerDeath for a cell that has a parentId), the fragment is not in the
\* map at the end of that pass and no cell's fragment list holds its id.
C11_EatenFragmentRemoved ==
    tickDue =>
        \A c \in collisionPass(Current) :
            \A i \in 1 .. Len(c.events) :
                LET id == c.events[i].payload.playerId
                IN  (Has(players, id) /\ Get(players, id).parentId # Undefined) =>
                        /\ ~Has(c.w.players, id)
                        /\ \A parent \in Range(c.w.players) :
                              id \notin Range(parent.splitParts)

\* C12: when checkPlayerCollision makes cell A eat a top-level cell B, A's
\* mass grows by exactly 0.8 * (B's mass before), to the resolution of
\* 1/MassUnit that masses are kept at, and A's radius is massToRadius of
\* the new mass; B stays in the map under its id, top-
\* level, with base mass, score 0 and a freshly drawn position; no other
\* cell's mass or score changes.
C12_TopLevelEatenIsReset ==
    \A a \in Cells : \A b \in Cells :
        (/\ a.id # b.id
         /\ b.parentId = Undefined
         /\ ~samePlayer(a, b)
         /\ Overlap(a, b)
         /\ canEat(a.mass, b.mass)) =>
            LET start == Pass(Current, {}, 0, <<>>)
            IN  \A out \in {checkPlayerCollision(start, a.id, b.id),
                            checkPlayerCollision(start, b.id, a.id)} :
                  /\ out # {}
                  /\ \A c \in out :
                        /\ Len(c.w.players) = Len(players)
                        /\ Has(c.w.players, a.id) /\ Has(c.w.players, b.id)
                        /\ LET a1 == Get(c.w.players, a.id)
                               b1 == Get(c.w.players, b.id)
                           IN  /\ a1.mass - a.mass = (4 * b.mass) \div 5
                               /\ a1.radius = massToRadius(a1.mass)
                               /\ b1.parentId = Undefined
                               /\ b1.mass = BASE_MASS * MassUnit
                               /\ b1.score = 0
                               /\ <<b1.x, b1.y>> \in RandomPoints
                        /\ \A other \in Cells :
                              other.id \notin {a.id, b.id} =>
                                  /\ Has(c.w.players, other.id)
                                  /\ Get(c.w.players, other.id).mass = other.mass
                                  /\ Get(c.w.players, other.id).score = other.score

\* A tick has just eaten a top-level cell: its playerDeath was emitted, the
\* cell is live with base mass and score 0, and the eater named in the
\* event holds more than the base mass.
C12_Witness ==
    /\ TickRan
    /\ \E i \in 1 .. Len(emitted) :
          /\ emitted[i].event = "playerDeath"
          /\ Len(emitted[i].payload.playerId) = 1
          /\ Has(players, emitted[i].payload.playerId)
          /\ Get(players, emitted[i].payload.playerId).mass = BASE_MASS * MassUnit
          /\ Get(players, emitted[i].payload.playerId).score = 0
          /\ \E eater \in Cells :
                /\ eater.name = emitted[i].payload.eatenBy
                /\ 5 * (eater.mass - BASE_MASS * MassUnit)
                      = 4 * emitted[i].payload.finalMass

\* C13: in every collision pass, a food item whose distance to some live
\* cell is below that cell's radius at the start of the pass is consumed
\* during the pass, in whichever quadrants the two lie: a random draw is
\* used for the replacement and some cell's mass and score have changed at
\* the end of the pass.
C13_FoodInRadiusConsumed ==
    tickDue =>
        \A foodItem \in Range(food) : \A player \in Cells :
            Dist2(player.x, player.y, foodItem.x, foodItem.y)
                < player.radius * player.radius =>
                \A c \in collisionPass(Current) :
                    /\ c.draws >= 1
                    /\ \E cell \in Range(c.w.players) :
                          /\ Has(players, cell.id)
                          /\ \/ cell.mass # Get(players, cell.id).mass
                             \/ cell.score # Get(players, cell.id).score

\* C14: in every collision pass, every pair of live cells of different
\* lineages whose distance is below the sum of their radii at the start of
\* the pass is tested by the eating rule (its key enters processedPairs),
\* in whichever quadrants the two centres lie; and when one of the two
\* masses is above 1.15 times the other, the pass emits an eat.
C14_OverlappingPairTested ==
    tickDue =>
        \A a \in Cells : \A b \in Cells :
            (a.id # b.id /\ ~samePlayer(a, b) /\ Overlap(a, b)) =>
                \A c \in collisionPass(Current) :
                    /\ {a.id, b.id} \in c.pairs
                    /\ (canEat(a.mass, b.mass) \/ canEat(b.mass, a.mass)) =>
                           c.draws >= 1

\* C15: the number of live top-level player cells never exceeds MAX_PLAYERS,
\* whatever the order of connections and joins.
C15_TopLevelWithinCap ==
    Cardinality({cell \in Cells : cell.parentId = Undefined}) <= MAX_PLAYERS

\* C16: on an open connection, a split command when the connection's
\* top-level cell is absent or has mass below MIN_SPLIT_MASS, and a move
\* command when the connection has no cell, leave players, food and the
\* quadrants as they are and emit no event.
C16_IgnoredCommandsChangeNothing ==
    \A s \in Sockets :
        sockets[s] = "open" =>
            /\ (\/ ~Has(players, SocketId(s))
                \/ Get(players, SocketId(s)).mass < MIN_SPLIT_MASS * MassUnit) =>
                   \A angle \in Angles :
                       split(Current, SocketId(s), now, angle) = Handled(Current, <<>>)
            /\ ~Has(players, SocketId(s)) =>
                   \A target \in Targets :
                       move(Current, SocketId(s), target[1], target[2])
                           = Handled(Current, <<>>)

\* A move or split command has been handled on an open connection that has
\* no cell: a command was counted, yet the map is empty and no socket was
\* ever closed, so no cell was created, and the handler emitted nothing.
C16_Witness ==
    /\ players = <<>>
    /\ commands >= 1
    /\ emitted = <<>>
    /\ \A s \in Sockets : sockets[s] # "closed"
    /\ \E s \in Sockets : sockets[s] = "open"

\* C17: a move command whose target holds a coordinate that is not finite
\* leaves every cell at a finite point inside the world: handled in a state
\* where all cells are inside the world, it ends in such a state.
C17_MalformedMoveKeepsCellsInWorld ==
    LET InWorld(cell) ==
            /\ IsFinite(cell.x) /\ IsFinite(cell.y)
            /\ 0 <= cell.x /\ cell.x <= WORLD_WIDTH
            /\ 0 <= cell.y /\ cell.y <= WORLD_HEIGHT
    IN  (\A cell \in Cells : InWorld(cell)) =>
            \A s \in Sockets : \A target \in MalformedTargets :
                sockets[s] = "open" =>
                    \A cell \in Range(move(Current, SocketId(s),
                                           target[1], target[2]).w.players) :
                        InWorld(cell)

\* C18: every playerDeath event emitted by a tick is not a broadcast and is
\* delivered to exactly the open connection that owns the eaten cell (the
\* connection whose id is the cell's id or the id of the cell's parent).
C18_DeathToOwnerOnly ==
    \A i \in 1 .. Len(emitted) :
        LET e == emitted[i]
        IN  (e.event = "playerDeath" /\ Has(players, e.payload.playerId)) =>
                /\ e.via # "broadcast"
                /\ Recipients(e, sockets)
                      = {s \in Sockets :
                            /\ sockets[s] = "open"
                            /\ SocketId(s) = Owner(Get(players, e.payload.playerId))}

\* C19: a join command on an open connection, whatever Math.random()
\* returns, leaves exactly one cell under the connection's id, top-level,
\* with base mass and score 0 (a cell the connection had is replaced, the
\* other cells stay), and emits exactly one event: init, delivered to the
\* sender only, carrying that cell and the world's width and height.
C19_JoinLeavesOneCellAndInit ==
    \A s \in Sockets : \A d \in JoinDraws :
        sockets[s] = "open" =>
            LET h == join(Current, SocketId(s), NameInput(s), <<d[1], d[2]>>, d[3])
                mine == {i \in 1 .. Len(h.w.players) :
                            h.w.players[i].id = SocketId(s)}
                cell == Get(h.w.players, SocketId(s))
            IN  /\ Cardinality(mine) = 1
                /\ cell.parentId = Undefined
                /\ cell.mass = BASE_MASS * MassUnit
                /\ cell.score = 0
                /\ {other \in Range(h.w.players) : other.id # SocketId(s)}
                      = {other \in Cells : other.id # SocketId(s)}
                /\ Len(h.events) = 1
                /\ h.events[1].event = "init"
                /\ Recipients(h.events[1], sockets) = {s}
                /\ h.events[1].payload
                      = [player |-> cell, worldWidth |-> WORLD_WIDTH,
                         worldHeight |-> WORLD_HEIGHT]

\* A repeated join has just been handled: the init went to a connection
\* whose new cell has base mass and an empty fragment list while a fragment
\* of its former cell is still live.
C19_Witness ==
    /\ Len(emitted) = 1
    /\ emitted[1].event = "init"
    /\ \E s \in Sockets :
          /\ Recipients(emitted[1], sockets) = {s}
          /\ Has(players, SocketId(s))
          /\ emitted[1].payload.player = Get(players, SocketId(s))
          /\ Get(players, SocketId(s)).mass = BASE_MASS * MassUnit
          /\ Get(players, SocketId(s)).splitParts = <<>>
          /\ \E part \in Cells : part.parentId = SocketId(s)

\* C20: every gameUpdate snapshot carries a timestamp and the total
\* connected-player count, and lists every live cell and every live food
\* item exactly once.
C20_SnapshotCarriesTimestampAndCount ==
    \A i \in 1 .. Len(emitted) :
        emitted[i].event = "gameUpdate" =>
            LET snapshot == emitted[i].payload
            IN  /\ "timestamp" \in DOMAIN snapshot
                /\ "totalPlayers" \in DOMAIN snapshot
                /\ Len(snapshot.players) = Cardinality(Cells)
                /\ {snapshot.players[k].id : k \in 1 .. Len(snapshot.players)}
                      = {cell.id : cell \in Cells}
                /\ Len(snapshot.food) = Cardinality(Range(food))
                /\ {snapshot.food[k].id : k \in 1 .. Len(snapshot.food)}
                      = {f.id : f \in Range(food)}

\* The callback that ran last emitted a gameUpdate.
Broadcasts == \E i \in 1 .. Len(emitted) : emitted[i].event = "gameUpdate"

\* The loop of the first class: whenever a gameUpdate is emitted, at least
\* the broadcast interval 1000 / BROADCAST_RATE has gone by since the previous one (or since the
\* start), a simulation tick has run later than the previous broadcast, and
\* the broadcast interval is longer than the tick interval.
FirstLoopBroadcastSlowerThanTicks ==
    [][Broadcasts' =>
          /\ (now' - lastBroadcastTime) * BROADCAST_RATE >= 1000
          /\ lastUpdateTime' > lastBroadcastTime
          /\ lastBroadcastTime' = now'
          /\ BROADCAST_RATE < UPDATE_RATE]_vars

\* A second gameUpdate of the loop of the first class has just been emitted.
FirstLoopBroadcastsTwice ==
    /\ Broadcasts
    /\ lastBroadcastTime = now
    /\ now * BROADCAST_RATE >= 2 * 1000

\* C21: two consecutive gameUpdate broadcasts are never closer together
\* than the broadcast interval, which is longer than the tick interval; here
\* for the loop of the class with bots, whose frames are its ticks.
C21_BroadcastSlowerThanTicks ==
    [][/\ arena.frameCount > 0
       /\ arena'.frameCount = arena.frameCount + 1
       /\ Broadcasts'
       => /\ (now' - arena.lastTime) * BROADCAST_RATE >= 1000
          /\ BROADCAST_RATE < UPDATE_RATE]_vars

\* C22: the constructor has registered a connection handler on the io
\* server, and every socket that was delivered to it has a disconnect
\* handler registered.
C22_DisconnectHandlerRegistered ==
    /\ "connection" \in handlers["io"]
    /\ \A s \in Sockets :
          sockets[s] # "idle" => "disconnect" \in handlers[s]

\* The summed mass of the cells of a lineage: the owner's top-level cell and
\* the cells whose parentId is the owner's id.
RECURSIVE LineageMassFrom(_, _, _)
LineageMassFrom(ps, owner, i) ==
    IF i > Len(ps) THEN 0
    ELSE (IF ps[i].id = owner \/ ps[i].parentId = owner THEN ps[i].mass ELSE 0)
         + LineageMassFrom(ps, owner, i + 1)
LineageMass(ps, owner) == LineageMassFrom(ps, owner, 1)

\* The step is a successful split of owner: handleSplit alone lengthens
\* splitParts.
SplitsNow(owner) ==
    /\ Has(players, owner)
    /\ Has(players', owner)
    /\ Len(Get(players', owner).splitParts) = Len(Get(players, owner).splitParts) + 1

\* C25: every successful split adds exactly one live cell, whose id no live
\* cell had, and leaves the summed mass of the lineage as it was, also when
\* it follows another split at the same clock reading.
C25_SplitAddsDistinctFragment ==
    [][\A s \in Sockets :
         SplitsNow(SocketId(s)) =>
           /\ Len(players') = Len(players) + 1
           /\ \E i \in 1 .. Len(players') :
                 /\ ~Has(players, players'[i].id)
                 /\ players'[i].parentId = SocketId(s)
           /\ LineageMass(players', SocketId(s)) = LineageMass(players, SocketId(s))]_vars

\* Two cells of one lineage.
SameLineage(a, b) == Owner(a) = Owner(b)

\* C26: checkPlayerCollision changes nothing for two cells of one lineage (a
\* top-level cell and its fragment, or two siblings), whatever their
\* distance and masses; and a collision pass over a world that holds one
\* lineage only removes no cell, resets none and emits nothing.
C26_NoEatingWithinLineage ==
    LET start == Pass(Current, {}, 0, <<>>)
    IN  /\ \A a \in Cells : \A b \in Cells :
              (a.id # b.id /\ SameLineage(a, b)) =>
                  checkPlayerCollision(start, a.id, b.id) = {start}
        /\ (tickDue /\ \A a \in Cells : \A b \in Cells : SameLineage(a, b)) =>
              \A c \in collisionPass(Current) :
                  /\ Len(c.w.players) = Len(players)
                  /\ c.events = <<>>
                  /\ \A i \in 1 .. Len(players) :
                        /\ c.w.players[i].id = players[i].id
                        /\ c.w.players[i].x = players[i].x
                        /\ c.w.players[i].y = players[i].y
                        /\ c.w.players[i].mass >= players[i].mass

\* A tick has just run over two overlapping siblings of which one has more
\* than EAT_RATIO times the mass of the other, and both are alive.
C26_Witness ==
    /\ now > 0
    /\ lastUpdateTime = now
    /\ \E a \in Cells : \E b \in Cells :
          /\ a.id # b.id
          /\ a.parentId # Undefined
          /\ a.parentId = b.parentId
          /\ Overlap(a, b)
          /\ canEat(a.mass, b.mass)

\* C27: a move command displaces each cell of the sender's lineage by at
\* most one speed step, PLAYER_SPEED along either axis: no cell is advanced
\* twice.
C27_MoveDisplacesOnce ==
    \A s \in Sockets : \A target \in Targets :
        (sockets[s] = "open" /\ Has(players, SocketId(s))) =>
            LET w == move(Current, SocketId(s), target[1], target[2]).w
            IN  \A cell \in Cells :
                    Owner(cell) = SocketId(s) =>
                        /\ Abs(Get(w.players, cell.id).x - cell.x) <= PLAYER_SPEED
                        /\ Abs(Get(w.players, cell.id).y - cell.y) <= PLAYER_SPEED

\* C28: the splitParts list of every top-level cell holds no id twice and
\* holds exactly the ids of the live cells whose parentId is the cell's id.
C28_FragmentLinksConsistent ==
    \A p \in Cells :
        p.parentId = Undefined =>
            /\ \A i, j \in 1 .. Len(p.splitParts) :
                  p.splitParts[i] = p.splitParts[j] => i = j
            /\ Range(p.splitParts) = {c.id : c \in {c \in Cells : c.parentId = p.id}}

\* The clock reading in the id of a fragment, `${playerId}_part_${Date.now()}`.
SplitTime(cell) == cell.id[Len(cell.id)]

\* C29: the first merge check that runs after a split does not absorb the
\* fragment of that split: a fragment made after the last tick is still
\* alive when the next tick has run.
C29_FreshFragmentNotAbsorbed ==
    [][(tickDue /\ lastUpdateTime' = now) =>
         \A cell \in Cells :
             (cell.parentId # Undefined /\ SplitTime(cell) > lastUpdateTime) =>
                 Has(players', cell.id)]_vars

\* Targets of a move command nearer to a joined cell than one speed step
\* and farther than the dead-zone of 5.
NearTargets == {<<505, 250>>, <<495, 262>>}

\* C34: a movement step towards a target farther than the dead-zone moves
\* the cell by min(d, speed) along the line to the target: the cell moves
\* no farther than its distance d to the target (it does not overshoot) and
\* no farther than one speed step.
C34_StepNeverOvershoots ==
    \A cell \in Cells : \A target \in Targets \cup NearTargets :
        LET d2 == Dist2(cell.x, cell.y, target[1], target[2])
            w == movePlayerTowardsTarget(Current, cell.id, target[1], target[2])
            cell1 == Get(w.players, cell.id)
            inside == /\ cell.x >= cell.radius /\ cell.x <= WORLD_WIDTH - cell.radius
                      /\ cell.y >= cell.radius /\ cell.y <= WORLD_HEIGHT - cell.radius
        IN  (d2 > 5 * 5 /\ inside) =>
                /\ Dist2(cell.x, cell.y, cell1.x, cell1.y) <= d2
                /\ Dist2(cell.x, cell.y, cell1.x, cell1.y)
                      <= (PLAYER_SPEED + 1) * (PLAYER_SPEED + 1)

\* The cell lies strictly inside the range movePlayerTowardsTarget clamps
\* positions to, so that the clamp has not changed its position.
NotClamped(cell) ==
    /\ cell.x > cell.radius /\ cell.x < WORLD_WIDTH - cell.radius
    /\ cell.y > cell.radius /\ cell.y < WORLD_HEIGHT - cell.radius

\* C35: a move command in which no cell of the lineage is clamped leaves
\* the offset of every fragment from its top-level cell as it was before
\* the command (up to the rounding of one position unit).
C35_MoveKeepsFragmentOffsets ==
    \A s \in Sockets : \A target \in Targets :
        (sockets[s] = "open" /\ Has(players, SocketId(s))) =>
            LET w == move(Current, SocketId(s), target[1], target[2]).w
                mainPlayer == Get(players, SocketId(s))
                mainPlayer1 == Get(w.players, SocketId(s))
                lineage == {c \in Cells : Owner(c) = SocketId(s)}
            IN  (\A c \in lineage : NotClamped(c) /\ NotClamped(Get(w.players, c.id))) =>
                    \A part \in lineage :
                        LET part1 == Get(w.players, part.id)
                        IN  /\ Abs((part1.x - mainPlayer1.x) - (part.x - mainPlayer.x)) <= 1
                            /\ Abs((part1.y - mainPlayer1.y) - (part.y - mainPlayer.y)) <= 1

\* C36: the playerDeath event of an eat carries the eaten cell's id, the
\* eater's name, and the mass and score the eaten cell had immediately
\* before the eat, while the eat leaves the cell with base mass and score 0.
C36_DeathReportsCellBeforeReset ==
    \A eaten \in Cells : \A eater \in Cells :
        (eaten.id # eater.id /\ ~eaten.isBot /\ canEat(eater.mass, eaten.mass)) =>
            \A r \in handlePlayerEatenAny(Pass(Current, {}, 0, <<>>), eaten.id, eater.id) :
                /\ Len(r.events) = 1
                /\ r.events[1].event = "playerDeath"
                /\ r.events[1].payload.playerId = eaten.id
                /\ r.events[1].payload.eatenBy = eater.name
                /\ r.events[1].payload.finalMass = eaten.mass
                /\ r.events[1].payload.finalScore = eaten.score
                /\ Get(r.w.players, eaten.id).mass = BASE_MASS * MassUnit
                /\ Get(r.w.players, eaten.id).score = 0

\* A tick has just eaten a cell whose mass was not the base mass: the
\* playerDeath reports that mass and the cell is live with the base mass.
C36_Witness ==
    /\ TickRan
    /\ \E i \in 1 .. Len(emitted) :
          /\ emitted[i].event = "playerDeath"
          /\ emitted[i].payload.finalMass # BASE_MASS * MassUnit
          /\ emitted[i].payload.finalMass > 0
          /\ Has(players, emitted[i].payload.playerId)
          /\ Get(players, emitted[i].payload.playerId).mass = BASE_MASS * MassUnit

\* C37: at most one invocation of the game loop is pending at any moment,
\* and a step in which a tick runs is the tick alone: no command handler
\* runs in it, and at its end one invocation is queued and no further tick
\* is due, however long ago the previous tick ran.
C37_OneLoopInvocation ==
    [][/\ immediates <= 1
       /\ immediates' <= 1
       /\ lastUpdateTime' # lastUpdateTime =>
             /\ commands' = commands
             /\ sockets' = sockets
             /\ handlers' = handlers
             /\ immediates' = 1
             /\ ~tickDue']_vars

\* A tick has run three frame periods after the previous one, over a
\* joined cell, and one invocation of the loop is queued.
C37_Witness ==
    /\ now = 50
    /\ lastUpdateTime = 50
    /\ Cells # {}
    /\ immediates = 1

\* An invocation of gameLoop is queued and running it changes the state:
\* ENABLED <<GameLoop>>_vars, written out.  A tick that is due changes
\* lastUpdateTime, a broadcast that is due changes lastBroadcastTime, and an
\* invocation with neither due only clears the record of emitted events.
LoopCanRun ==
    /\ immediates > 0
    /\ IF tickDue THEN collisionPass(Current) # {}
       ELSE broadcastDue \/ emitted # <<>>

\* The game loop with its callback eventually run: setImmediate(gameLoop)
\* puts the callback in a queue the event loop serves on each iteration, so
\* a queued invocation does not wait for ever.  The condition is weak
\* fairness of GameLoop, WF_vars(GameLoop), with ENABLED written out as
\* LoopCanRun.
SpecLoopFair ==
    /\ Init /\ [][NextLoop]_vars
    /\ ([]<>(~LoopCanRun) \/ []<><<GameLoop>>_vars)

\* const targetFrameTime = 1000 / this.UPDATE_RATE, and the least whole
\* number of milliseconds that reaches it.
targetFrameTime == (1000 + UPDATE_RATE - 1) \div UPDATE_RATE
\* const targetBroadcastTime = 1000 / this.BROADCAST_RATE
targetBroadcastTime == (1000 + BROADCAST_RATE - 1) \div BROADCAST_RATE

C39_CellsInsideWorld ==
    \A cell \in Cells :
        /\ 0 <= cell.x /\ cell.x <= WORLD_WIDTH
        /\ 0 <= cell.y /\ cell.y <= WORLD_HEIGHT

\* C40: the mass of every live cell is strictly positive and at least
\* MIN_SPLIT_MASS / 2 (masses are held in units of 1 / MassUnit).
C40_MassAtLeastHalfSplitMass ==
    \A cell \in Cells :
        /\ cell.mass > 0
        /\ 2 * cell.mass >= MIN_SPLIT_MASS * MassUnit

\* A cell has been split down to exactly MIN_SPLIT_MASS / 2, next to a
\* fragment of the same mass, and a split command leaves it as it is.
C40_Witness ==
    \E cell \in Cells : \E part \in Cells :
        /\ part.parentId = cell.id
        /\ 2 * cell.mass = MIN_SPLIT_MASS * MassUnit
        /\ 2 * part.mass = MIN_SPLIT_MASS * MassUnit
        /\ handleSplit(Current, cell.id, now, 90) = Current

=============================================================================
